---- MODULE Spec2Model ----
(***************************************************************************)
(* Model of rust_http_proxy: the authenticator, the request dispatcher and *)
(* the per-connection idle supervisor.                                     *)
(*                                                                         *)
(* Strings are sequences of byte values, so that "byte-for-byte"           *)
(* comparison, ASCII/UTF-8 validity and Base64 are computed, not assumed.  *)
(***************************************************************************)
EXTENDS Integers, Sequences, FiniteSets, TLC

(* ------------------------------------------------------------------ *)
(* Strings (byte sequences)                                            *)
(* ------------------------------------------------------------------ *)

\* "Basic " : the prefix written by format!("Basic {}", base64)
S_BasicPrefix == <<66, 97, 115, 105, 99, 32>>
\* "basic " : the same prefix in lower case (an input only)
S_LowerBasicPrefix == <<98, 97, 115, 105, 99, 32>>
\* ":"
ColonByte == 58
\* "/metrics"
S_Metrics == <<47, 109, 101, 116, 114, 105, 99, 115>>
\* "/%6Detrics" : "/metrics" with its 'm' percent-encoded
S_MetricsEncoded == <<47, 37, 54, 68, 101, 116, 114, 105, 99, 115>>
\* "/nt", "/net", "/netx", "/net.json"
S_Nt == <<47, 110, 116>>
S_Net == <<47, 110, 101, 116>>
S_Netx == <<47, 110, 101, 116, 120>>
S_NetJson == <<47, 110, 101, 116, 46, 106, 115, 111, 110>>
\* "/"
S_Root == <<47>>
\* "/a"
S_PathA == <<47, 97>>

\* hyper::header::HeaderValue::to_str succeeds only on visible ASCII (and tab)
IsVisibleAscii(b) == (b >= 32 /\ b < 127) \/ b = 9

ToStrOk(v) == \A i \in 1..Len(v) : IsVisibleAscii(v[i])

\* str::from_utf8 validity (1- to 4-byte sequences)
IsCont(b) == b >= 128 /\ b <= 191

RECURSIVE IsValidUtf8(_)
IsValidUtf8(s) ==
    IF Len(s) = 0 THEN TRUE
    ELSE LET b == s[1] IN
         IF b < 128 THEN IsValidUtf8(Tail(s))
         ELSE IF b >= 194 /\ b <= 223
              THEN Len(s) >= 2 /\ IsCont(s[2]) /\ IsValidUtf8(SubSeq(s, 3, Len(s)))
         ELSE IF b >= 224 /\ b <= 239
              THEN /\ Len(s) >= 3 /\ IsCont(s[2]) /\ IsCont(s[3])
                   /\ (b = 224 => s[2] >= 160)
                   /\ (b = 237 => s[2] <= 159)
                   /\ IsValidUtf8(SubSeq(s, 4, Len(s)))
         ELSE IF b >= 240 /\ b <= 244
              THEN /\ Len(s) >= 4 /\ IsCont(s[2]) /\ IsCont(s[3]) /\ IsCont(s[4])
                   /\ (b = 240 => s[2] >= 144)
                   /\ (b = 244 => s[2] <= 143)
                   /\ IsValidUtf8(SubSeq(s, 5, Len(s)))
         ELSE FALSE

\* base64::engine::general_purpose::STANDARD alphabet
B64Char(n) ==
    IF n < 26 THEN 65 + n
    ELSE IF n < 52 THEN 97 + (n - 26)
    ELSE IF n < 62 THEN 48 + (n - 52)
    ELSE IF n = 62 THEN 43 ELSE 47

\* '=' padding
B64Pad == 61

RECURSIVE Base64Encode(_)
Base64Encode(bs) ==
    IF Len(bs) = 0 THEN <<>>
    ELSE IF Len(bs) = 1 THEN
        LET n == bs[1] * 65536 IN
        <<B64Char(n \div 262144), B64Char((n \div 4096) % 64), B64Pad, B64Pad>>
    ELSE IF Len(bs) = 2 THEN
        LET n == bs[1] * 65536 + bs[2] * 256 IN
        <<B64Char(n \div 262144), B64Char((n \div 4096) % 64),
          B64Char((n \div 64) % 64), B64Pad>>
    ELSE
        LET n == bs[1] * 65536 + bs[2] * 256 + bs[3] IN
        <<B64Char(n \div 262144), B64Char((n \div 4096) % 64),
          B64Char((n \div 64) % 64), B64Char(n % 64)>>
        \o Base64Encode(SubSeq(bs, 4, Len(bs)))

\* str::split(':') : the segments between colons, in order
RECURSIVE SplitColon(_)
SplitColon(s) ==
    IF \A i \in 1..Len(s) : s[i] # ColonByte THEN <<s>>
    ELSE LET k == CHOOSE i \in 1..Len(s) :
                     s[i] = ColonByte /\ \A j \in 1..(i - 1) : s[j] # ColonByte
         IN <<SubSeq(s, 1, k - 1)>> \o SplitColon(SubSeq(s, k + 1, Len(s)))

(* ------------------------------------------------------------------ *)
(* Options, headers, URIs, requests, responses                         *)
(* ------------------------------------------------------------------ *)

\* Option<T> is a sequence of length 0 (None) or 1 (Some)
None == <<>>
Some(x) == <<x>>

\* HeaderMap::get : the first value stored under the name
RECURSIVE HeaderGet(_, _)
HeaderGet(headers, name) ==
    IF Len(headers) = 0 THEN None
    ELSE IF headers[1].name = name THEN Some(headers[1].value)
    ELSE HeaderGet(Tail(headers), name)

\* HeaderMap::remove : drops every value stored under the name
RECURSIVE HeaderRemove(_, _)
HeaderRemove(headers, name) ==
    IF Len(headers) = 0 THEN <<>>
    ELSE IF headers[1].name = name THEN HeaderRemove(Tail(headers), name)
    ELSE <<headers[1]>> \o HeaderRemove(Tail(headers), name)

HeaderCount(headers, name) ==
    Cardinality({i \in 1..Len(headers) : headers[i].name = name})

\* decimal digits of a u16, as Display writes them
RECURSIVE U16ToString(_)
U16ToString(n) ==
    IF n < 10 THEN <<48 + n>>
    ELSE U16ToString(n \div 10) \o <<48 + (n % 10)>>

\* http::uri::Authority::to_string : host[:port]
AuthorityToString(a) ==
    IF a.port = None THEN a.host
    ELSE a.host \o <<ColonByte>> \o U16ToString(a.port[1])

\* the authority(uri) helper of proxy.rs
authority(uri) ==
    IF uri.authority = None THEN None
    ELSE Some(AuthorityToString(uri.authority[1]))

UriHost(uri) ==
    IF uri.authority = None THEN None ELSE Some(uri.authority[1].host)

UriPort(uri) ==
    IF uri.authority = None THEN None ELSE uri.authority[1].port

\* value of an ASCII hex digit, or 16 when the byte is not one
HexVal(b) ==
    IF b >= 48 /\ b <= 57 THEN b - 48
    ELSE IF b >= 65 /\ b <= 70 THEN b - 55
    ELSE IF b >= 97 /\ b <= 102 THEN b - 87
    ELSE 16

\* percent_encoding::percent_decode_str
RECURSIVE PercentDecode(_)
PercentDecode(s) ==
    IF Len(s) = 0 THEN <<>>
    ELSE IF s[1] = 37 /\ Len(s) >= 3 /\ HexVal(s[2]) < 16 /\ HexVal(s[3]) < 16
         THEN <<HexVal(s[2]) * 16 + HexVal(s[3])>> \o PercentDecode(SubSeq(s, 4, Len(s)))
    ELSE <<s[1]>> \o PercentDecode(Tail(s))

\* percent_decode_str(raw).decode_utf8().unwrap_or(raw)
DecodedPath(raw) ==
    LET d == PercentDecode(raw) IN IF IsValidUtf8(d) THEN d ELSE raw

Ok(resp) == [err |-> None, resp |-> Some(resp)]
Err(kind) == [err |-> Some(kind), resp |-> None]

\* "Basic realm=\"are you kidding me\""
S_Realm == <<66, 97, 115, 105, 99, 32, 114, 101, 97, 108, 109, 61, 34, 97, 114,
             101, 32, 121, 111, 117, 32, 107, 105, 100, 100, 105, 110, 103, 32,
             109, 101, 34>>

\* the misspelt default user name of check_auth
S_Unkonwn == <<117, 110, 107, 111, 110, 119, 110>>

\* LOCAL_IP as the process holds it (an input: the address of the host)
LOCAL_IP == <<49, 48, 46, 48, 46, 48, 46, 49>>

\* what local_ip() can return: the IPv4 address of a socket bound to 0.0.0.0,
\* written in dotted decimal: "0.0.0.0", "10.0.0.1", "255.255.255.255"
LocalIps ==
    { <<48, 46, 48, 46, 48, 46, 48>>,
      LOCAL_IP,
      <<50, 53, 53, 46, 50, 53, 53, 46, 50, 53, 53, 46, 50, 53, 53>> }

StatusOk == 200
StatusBadRequest == 400
StatusUnauthorized == 401
StatusNotFound == 404
StatusProxyAuthRequired == 407

(* ------------------------------------------------------------------ *)
(* Configuration                                                       *)
(* ------------------------------------------------------------------ *)

\* one iteration of the loop over --users in Config::try_from
InsertUser(table, raw_user) ==
    LET user == SplitColon(raw_user)
        username == user[1]
        password == IF Len(user) >= 2 THEN user[2] ELSE <<>>
        key == S_BasicPrefix \o Base64Encode(raw_user)
    IN IF username # <<>> /\ password # <<>>
       THEN [k \in (DOMAIN table) \cup {key} |->
                IF k = key THEN username ELSE table[k]]
       ELSE table

\* the empty HashMap
EmptyTable == [k \in {} |-> <<>>]

RECURSIVE BasicAuthOf(_)
BasicAuthOf(users) ==
    IF Len(users) = 0 THEN EmptyTable
    ELSE InsertUser(BasicAuthOf(SubSeq(users, 1, Len(users) - 1)), users[Len(users)])

\* "a:b", "c:d", "a:" and the default "" of --users
U_ab == <<97, 58, 98>>
U_cd == <<99, 58, 100>>
U_aEmpty == <<97, 58>>
U_default == <<>>

UserLists == { <<U_default>>, <<U_aEmpty>>, <<U_ab>>, <<U_ab, U_cd>> }

\* host names: "r" (an authority with a reverse-proxy entry), "o" (an origin),
\* "u" (the upstream behind "r")
H_r == <<114>>
H_o == <<111>>
H_u == <<117>>
\* a Host value that is not visible ASCII ("r" followed by byte 0xE9)
H_nonAscii == <<114, 233>>

\* wrap_plaintexts : authority -> (host, port)
NoWraps == [k \in {} |-> [host |-> <<>>, port |-> 0]]
WrapR == [k \in {H_r} |-> [host |-> H_u, port |-> 8080]]

Configs ==
    { [basic_auth |-> BasicAuthOf(ul), never_ask_for_auth |-> n, wrap_plaintexts |-> w] :
        ul \in UserLists, n \in BOOLEAN, w \in {NoWraps, WrapR} }

(* ------------------------------------------------------------------ *)
(* Authenticator                                                       *)
(* ------------------------------------------------------------------ *)

RECURSIVE TrimEnd(_)
TrimEnd(v) ==
    IF Len(v) > 0 /\ v[Len(v)] = 32 THEN TrimEnd(SubSeq(v, 1, Len(v) - 1)) ELSE v

\* a check_auth that trims the header value before the lookup
Mut_CheckAuthTrimmed(config_basic_auth, headers, header_name) ==
    IF DOMAIN config_basic_auth = {}
    THEN [username |-> S_Unkonwn, authed |-> TRUE]
    ELSE LET header == HeaderGet(headers, header_name) IN
         IF header = None THEN [username |-> S_Unkonwn, authed |-> FALSE]
         ELSE IF ~ToStrOk(header[1]) THEN [username |-> S_Unkonwn, authed |-> FALSE]
         ELSE IF TrimEnd(header[1]) \in DOMAIN config_basic_auth
              THEN [username |-> config_basic_auth[TrimEnd(header[1])], authed |-> TRUE]
         ELSE [username |-> S_Unkonwn, authed |-> FALSE]

\* a check_auth that looks for the header even when the table is empty
Mut_CheckAuthNoEmptyCase(config_basic_auth, headers, header_name) ==
    LET header == HeaderGet(headers, header_name) IN
    IF header = None THEN [username |-> S_Unkonwn, authed |-> FALSE]
    ELSE IF ~ToStrOk(header[1]) THEN [username |-> S_Unkonwn, authed |-> FALSE]
    ELSE IF header[1] \in DOMAIN config_basic_auth
         THEN [username |-> config_basic_auth[header[1]], authed |-> TRUE]
    ELSE [username |-> S_Unkonwn, authed |-> FALSE]

\* proxy.rs check_auth(config_basic_auth, req, _, header_name)
CheckAuth(config_basic_auth, headers, header_name) ==
    IF DOMAIN config_basic_auth = {}
    THEN [username |-> S_Unkonwn, authed |-> TRUE]
    ELSE LET header == HeaderGet(headers, header_name) IN
         IF header = None THEN [username |-> S_Unkonwn, authed |-> FALSE]
         ELSE IF ~ToStrOk(header[1]) THEN [username |-> S_Unkonwn, authed |-> FALSE]
         ELSE IF header[1] \in DOMAIN config_basic_auth
              THEN [username |-> config_basic_auth[header[1]], authed |-> TRUE]
         ELSE [username |-> S_Unkonwn, authed |-> FALSE]

\* axum_handler.rs check_auth(headers, basic_auth) : Ok(Option<user>) or Err(kind)
AxumCheckAuth(headers, basic_auth) ==
    IF DOMAIN basic_auth = {} THEN [ok |-> TRUE, user |-> None, err |-> None]
    ELSE LET h == HeaderGet(headers, "authorization") IN
         IF h = None THEN [ok |-> FALSE, user |-> None, err |-> Some("NotFound")]
         ELSE IF ~ToStrOk(h[1])
              THEN [ok |-> FALSE, user |-> None, err |-> Some("ToStrError")]
         ELSE IF \E key \in DOMAIN basic_auth : h[1] = key
              THEN [ok |-> TRUE,
                    user |-> Some(basic_auth[CHOOSE key \in DOMAIN basic_auth : h[1] = key]),
                    err |-> None]
         ELSE [ok |-> FALSE, user |-> None, err |-> Some("PermissionDenied")]

\* a build_authenticate_resp whose header does not follow for_proxy
Mut_BuildAuthenticateRespHeader(for_proxy) ==
    [status |-> IF for_proxy THEN StatusProxyAuthRequired ELSE StatusUnauthorized,
     headers |-> << [name |-> "www-authenticate", value |-> S_Realm] >>,
     body |-> "auth need"]

\* proxy.rs build_authenticate_resp(for_proxy)
BuildAuthenticateResp(for_proxy) ==
    [status |-> IF for_proxy THEN StatusProxyAuthRequired ELSE StatusUnauthorized,
     headers |-> << [name |-> IF for_proxy THEN "proxy-authenticate"
                                           ELSE "www-authenticate",
                     value |-> S_Realm] >>,
     body |-> "auth need"]

\* a serve_metrics that challenges the way the proxy path does
Mut_ServeMetricsProxyChallenge(basic_auth, headers) ==
    LET a == AxumCheckAuth(headers, basic_auth) IN
    IF ~a.ok
    THEN [status |-> StatusProxyAuthRequired,
          headers |-> << [name |-> "proxy-authenticate", value |-> S_Realm] >>,
          body |-> a.err[1]]
    ELSE [status |-> StatusOk, headers |-> <<>>, body |-> "metrics"]

\* axum_handler.rs serve_metrics
ServeMetrics(basic_auth, headers) ==
    LET a == AxumCheckAuth(headers, basic_auth) IN
    IF ~a.ok
    THEN [status |-> StatusUnauthorized,
          headers |-> << [name |-> "www-authenticate", value |-> S_Realm] >>,
          body |-> a.err[1]]
    ELSE [status |-> StatusOk, headers |-> <<>>, body |-> "metrics"]

\* "text/html; charset=utf-8"
S_TextHtml == <<116, 101, 120, 116, 47, 104, 116, 109, 108, 59, 32, 99, 104, 97, 114, 115, 101, 116, 61, 117, 116, 102, 45, 56>>

AXUM_PATHS == {S_Metrics, S_Nt, S_Net, S_Netx, S_NetJson}

\* axum_handler.rs build_router : /metrics, the linux routes, and the 404 fallback
Router(basic_auth, headers, path) ==
    IF path = S_Metrics THEN ServeMetrics(basic_auth, headers)
    ELSE IF path \in {S_Nt, S_Net, S_Netx, S_NetJson}
         THEN [status |-> StatusOk, headers |-> <<>>, body |-> "net"]
    ELSE [status |-> StatusNotFound,
          headers |-> << [name |-> "content-type", value |-> S_TextHtml] >>,
          body |-> "BODY404"]

\* web_func::serve_http_request : the internal endpoint set, else static content
ServeHttpRequest(cfg, headers, path) ==
    IF path \in AXUM_PATHS THEN Ok(Router(cfg.basic_auth, headers, path))
    ELSE Ok([status |-> StatusOk, headers |-> <<>>, body |-> "static"])

(* ------------------------------------------------------------------ *)
(* Request dispatcher : ProxyHandler::proxy                            *)
(* ------------------------------------------------------------------ *)

Event(op, arg) == [op |-> op, arg |-> arg]

\* what one run of the handler produced: its return value, the steps it took
\* in order, the check_auth result when it ran, the upgrade task it spawned,
\* the request it sent upstream, and the branch that served it
Result(out, log, auth, spawned, sent, route) ==
    [out |-> out, log |-> log, auth |-> auth, spawned |-> spawned,
     sent |-> sent, route |-> route, io |-> None]

\* client_socket_addr.ip().to_canonical().to_string() of the connection: 192.0.2.7
ClientIp == <<49, 57, 50, 46, 48, 46, 50, 46, 55>>

\* struct AccessLabel
AccessLabel(client, target, username) ==
    [client |-> client, target |-> target, username |-> username]

\* the handler wrapped the stream it dialed: CounterIO::new(stream, proxy_traffic,
\* label), and TimeoutIO::new(stream, timeout) where the path adds one
Wrapped(r, label, timeout) ==
    [r EXCEPT !.io = Some([label |-> label, timeout |-> timeout])]

\* format!("{}:{}", host, port)
HostPort(host, port) == host \o <<ColonByte>> \o U16ToString(port)

\* the port dialed when the URI names none
DefaultPort == 80

\* 2048 / LOCAL_IP.len()
PaddingBudget == 2048

MaxNum(ip) == PaddingBudget \div Len(ip)

\* the division and gen_range(1..max_num) do not panic
PaddingDefined(ip) == Len(ip) > 0 /\ 1 < MaxNum(ip)

\* the 200 response to CONNECT with `count` Server headers
ConnectResp(ip, count) ==
    [status |-> StatusOk,
     headers |-> [i \in 1..count |-> [name |-> "server", value |-> ip]],
     body |-> ""]

\* the label of a tunnel's target stream: {client, addr, username}
ConnectLabel(addr, username) == AccessLabel(ClientIp, addr, username)

\* proxy.rs 161-234 : the CONNECT branch, after authentication
ConnectBranch(req, auth, env) ==
    LET addr == authority(req.uri) IN
    IF addr # None
    THEN Result(IF PaddingDefined(env.local_ip)
                THEN Ok(ConnectResp(env.local_ip, env.count)) ELSE Err("panic"),
                <<Event("check_auth", <<>>), Event("spawn_upgrade", addr[1])>>,
                Some(auth),
                Some([addr |-> addr[1], username |-> auth.username,
                      authed |-> auth.authed]),
                None, "connect")
    ELSE Result(Ok([status |-> StatusBadRequest, headers |-> <<>>,
                    body |-> "CONNECT must be to a socket address"]),
                <<Event("check_auth", <<>>)>>, Some(auth), None, None, "connect")

\* a forward step that forgets Proxy-Connection
Mut_ForwardRequestKeepConnection(req) ==
    [req EXCEPT !.headers = HeaderRemove(req.headers, "proxy-authorization")]

\* proxy.rs 237-239 : the request as forwarded, proxy headers removed
ForwardRequest(req) ==
    [req EXCEPT !.headers =
        HeaderRemove(HeaderRemove(req.headers, "proxy-authorization"),
                     "proxy-connection")]

\* a label that names the host without the port dialed
Mut_ForwardLabelHostOnly(host, port, username) ==
    AccessLabel(ClientIp, host, username)

\* the label of a forwarded request's stream: {client, host:port, username}
ForwardLabel(host, port, username) ==
    AccessLabel(ClientIp, HostPort(host, port), username)

\* a forward branch that dials port 80 whatever the URI says
Mut_ForwardBranchAlwaysPort80(req, auth, env) ==
    LET host == UriHost(req.uri)
        port == DefaultPort
        checked == <<Event("check_auth", <<>>)>>
    IN
    IF host = None
    THEN Result(Err("panic"), checked, Some(auth), None, None, "forward")
    ELSE LET target == HostPort(host[1], port)
             dialed == checked \o <<Event("dial", target)>>
         IN
         IF env.dial # "ok"
         THEN Result(Err(env.dial), dialed, Some(auth), None, None, "forward")
         ELSE Wrapped(
           IF ~env.handshake
           THEN Result(Err("ConnectionAborted"), dialed, Some(auth), None, None, "forward")
           ELSE IF env.send = None
           THEN Result(Err("ConnectionAborted"), dialed \o <<Event("send", target)>>,
                       Some(auth), None, Some(ForwardRequest(req)), "forward")
           ELSE Result(Ok(env.send[1]), dialed \o <<Event("send", target)>>,
                       Some(auth), None, Some(ForwardRequest(req)), "forward"),
           ForwardLabel(host[1], port, auth.username), None)

\* proxy.rs 235-280 : the forward branch, after authentication
ForwardBranch(req, auth, env) ==
    LET host == UriHost(req.uri)
        port == IF UriPort(req.uri) = None THEN DefaultPort ELSE UriPort(req.uri)[1]
        checked == <<Event("check_auth", <<>>)>>
    IN
    IF host = None
    THEN Result(Err("panic"), checked, Some(auth), None, None, "forward")
    ELSE LET target == HostPort(host[1], port)
             dialed == checked \o <<Event("dial", target)>>
         IN
         IF env.dial # "ok"
         THEN Result(Err(env.dial), dialed, Some(auth), None, None, "forward")
         ELSE Wrapped(
           IF ~env.handshake
           THEN Result(Err("ConnectionAborted"), dialed, Some(auth), None, None, "forward")
           ELSE IF env.send = None
           THEN Result(Err("ConnectionAborted"), dialed \o <<Event("send", target)>>,
                       Some(auth), None, Some(ForwardRequest(req)), "forward")
           ELSE Result(Ok(env.send[1]), dialed \o <<Event("send", target)>>,
                       Some(auth), None, Some(ForwardRequest(req)), "forward"),
           ForwardLabel(host[1], port, auth.username), None)

\* an authentication step that challenges whatever never_ask_for_auth says
Mut_AuthThenProxyAlwaysAsk(cfg, req, env) ==
    LET auth == CheckAuth(cfg.basic_auth, req.headers, "proxy-authorization") IN
    IF ~auth.authed
    THEN Result(Ok(BuildAuthenticateResp(TRUE)), <<Event("check_auth", <<>>)>>,
                Some(auth), None, None,
                IF req.method = "CONNECT" THEN "connect" ELSE "forward")
    ELSE IF req.method = "CONNECT"
         THEN ConnectBranch(req, auth, env)
         ELSE ForwardBranch(req, auth, env)

\* a handler that validates the CONNECT target before it authenticates
Mut_AuthThenProxyTargetFirst(cfg, req, env) ==
    LET auth == CheckAuth(cfg.basic_auth, req.headers, "proxy-authorization") IN
    IF req.method = "CONNECT" /\ authority(req.uri) = None
    THEN ConnectBranch(req, auth, env)
    ELSE IF ~auth.authed
    THEN IF cfg.never_ask_for_auth
         THEN Result(Err("PermissionDenied"), <<Event("check_auth", <<>>)>>,
                     Some(auth), None, None,
                     IF req.method = "CONNECT" THEN "connect" ELSE "forward")
         ELSE Result(Ok(BuildAuthenticateResp(TRUE)), <<Event("check_auth", <<>>)>>,
                     Some(auth), None, None,
                     IF req.method = "CONNECT" THEN "connect" ELSE "forward")
    ELSE IF req.method = "CONNECT"
         THEN ConnectBranch(req, auth, env)
         ELSE ForwardBranch(req, auth, env)

\* proxy.rs 136-160 : authentication on Proxy-Authorization, then 161-280
AuthThenProxy(cfg, req, env) ==
    LET auth == CheckAuth(cfg.basic_auth, req.headers, "proxy-authorization") IN
    IF ~auth.authed
    THEN IF cfg.never_ask_for_auth
         THEN Result(Err("PermissionDenied"), <<Event("check_auth", <<>>)>>,
                     Some(auth), None, None,
                     IF req.method = "CONNECT" THEN "connect" ELSE "forward")
         ELSE Result(Ok(BuildAuthenticateResp(TRUE)), <<Event("check_auth", <<>>)>>,
                     Some(auth), None, None,
                     IF req.method = "CONNECT" THEN "connect" ELSE "forward")
    ELSE IF req.method = "CONNECT"
         THEN ConnectBranch(req, auth, env)
         ELSE ForwardBranch(req, auth, env)

\* HeaderMap::insert on a map that holds no value under the name
HeaderInsert(headers, name, value) ==
    HeaderRemove(headers, name) \o << [name |-> name, value |-> value] >>

\* a reverse-proxy request that appends its Host to the inbound ones
Mut_ReverseRequestKeepHost(req, target) ==
    LET copied == req.headers \o << [name |-> "host", value |-> target] >>
        framed == IF HeaderGet(copied, "content-length") = None
                     /\ HeaderGet(copied, "transfer-encoding") = None
                  THEN HeaderInsert(copied, "transfer-encoding",
                                    <<99, 104, 117, 110, 107, 101, 100>>)
                  ELSE copied
    IN [method |-> req.method,
        version |-> "HTTP/1.1",
        uri |-> [authority |-> None,
                 path |-> IF req.uri.path = <<>> THEN S_Root ELSE req.uri.path,
                 query |-> req.uri.query],
        headers |-> framed,
        body |-> req.body]

\* a reverse-proxy request that adds chunked whenever Content-Length is missing
Mut_ReverseRequestChunkedNoLength(req, target) ==
    LET copied == HeaderRemove(req.headers, "host") \o
                  << [name |-> "host", value |-> target] >>
        framed == IF HeaderGet(copied, "content-length") = None
                  THEN HeaderInsert(copied, "transfer-encoding",
                                    <<99, 104, 117, 110, 107, 101, 100>>)
                  ELSE copied
    IN [method |-> req.method,
        version |-> "HTTP/1.1",
        uri |-> [authority |-> None,
                 path |-> IF req.uri.path = <<>> THEN S_Root ELSE req.uri.path,
                 query |-> req.uri.query],
        headers |-> framed,
        body |-> req.body]

\* "unknown"
S_Unknown == <<117, 110, 107, 110, 111, 119, 110>>

\* HeaderValue::from_str(&target).unwrap_or(HeaderValue::from_static("unknown"))
HostHeaderValue(target) ==
    IF \A i \in 1..Len(target) : IsVisibleAscii(target[i]) \/ target[i] = 9
    THEN target ELSE S_Unknown

\* proxy.rs 324-371 : the request sent to the plaintext upstream
ReverseRequest(req, target) ==
    LET copied == HeaderRemove(req.headers, "host") \o
                  << [name |-> "host", value |-> HostHeaderValue(target)] >>
        framed == IF HeaderGet(copied, "content-length") = None
                     /\ HeaderGet(copied, "transfer-encoding") = None
                  THEN copied \o << [name |-> "transfer-encoding",
                                     value |-> <<99, 104, 117, 110, 107, 101, 100>>] >>
                  ELSE copied
    IN [method |-> req.method,
        version |-> "HTTP/1.1",
        uri |-> [authority |-> None,
                 path |-> IF req.uri.path = <<>> THEN S_Root ELSE req.uri.path,
                 query |-> req.uri.query],
        headers |-> framed,
        body |-> req.body]

\* the label of a reverse-proxied stream: {client, target, username: authority}
ReverseLabel(authority_str, target) == AccessLabel(ClientIp, target, authority_str)

\* Duration::from_secs(60) of the reverse-proxied stream
ReverseTimeout == 60

\* proxy.rs 283-388 : reverse_proxy
ReverseProxy(authority_str, req, plain_host, plain_port, env) ==
    LET target == HostPort(plain_host, plain_port)
        dialed == <<Event("dial", target)>>
    IN
    IF env.dial # "ok"
    THEN Result(Err(env.dial), dialed, None, None, None, "reverse")
    ELSE Wrapped(
      IF ~env.handshake
      THEN Result(Err("ConnectionAborted"), dialed, None, None, None, "reverse")
      ELSE IF env.send = None
      THEN Result(Err("ConnectionAborted"), dialed \o <<Event("send", target)>>,
                  None, None, Some(ReverseRequest(req, target)), "reverse")
      ELSE Result(Ok(env.send[1]), dialed \o <<Event("send", target)>>,
                  None, None, Some(ReverseRequest(req, target)), "reverse"),
      ReverseLabel(authority_str, target), Some(ReverseTimeout))

\* proxy.rs 71-78 : the authority the reverse-proxy table is asked for
RequestAuthority(req) ==
    IF req.version = "HTTP/2"
    THEN IF authority(req.uri) = None THEN <<>> ELSE authority(req.uri)[1]
    ELSE LET h == HeaderGet(req.headers, "host") IN
         IF h = None THEN <<>>
         ELSE IF ToStrOk(h[1]) THEN h[1] ELSE <<>>

\* the guard with never_ask_for_auth the other way round
Mut_RejectWebContentSilent(cfg) ==
    DOMAIN cfg.basic_auth # {} /\ cfg.never_ask_for_auth

\* proxy.rs 98 : the guard in front of the internal endpoints
RejectWebContent(cfg) ==
    DOMAIN cfg.basic_auth # {} /\ ~cfg.never_ask_for_auth

\* a dispatcher that serves only HTTP/2 requests as web content
Mut_NonConnectBranchNoHostTest(cfg, req, env) ==
    LET a == RequestAuthority(req) IN
    IF a \in DOMAIN cfg.wrap_plaintexts
    THEN ReverseProxy(a, req, cfg.wrap_plaintexts[a].host,
                      cfg.wrap_plaintexts[a].port, env)
    ELSE IF req.version = "HTTP/2"
         THEN IF RejectWebContent(cfg)
              THEN Result(Err("PermissionDenied"), <<>>, None, None, None, "internal")
              ELSE Result(ServeHttpRequest(cfg, req.headers, DecodedPath(req.uri.path)),
                          <<Event("serve_http_request", DecodedPath(req.uri.path))>>,
                          None, None, None, "internal")
    ELSE AuthThenProxy(cfg, req, env)

\* a routing step that sends every request with a URI host to the forward path
Mut_NonConnectBranchHostOnly(cfg, req, env) ==
    LET a == RequestAuthority(req) IN
    IF a \in DOMAIN cfg.wrap_plaintexts
    THEN ReverseProxy(a, req, cfg.wrap_plaintexts[a].host,
                      cfg.wrap_plaintexts[a].port, env)
    ELSE IF UriHost(req.uri) = None
         THEN IF RejectWebContent(cfg)
              THEN Result(Err("PermissionDenied"), <<>>, None, None, None, "internal")
              ELSE Result(ServeHttpRequest(cfg, req.headers, DecodedPath(req.uri.path)),
                          <<Event("serve_http_request", DecodedPath(req.uri.path))>>,
                          None, None, None, "internal")
    ELSE AuthThenProxy(cfg, req, env)

\* a dispatcher that asks for proxy credentials before it reverse-proxies
Mut_NonConnectBranchAuthFirst(cfg, req, env) ==
    LET a == RequestAuthority(req) IN
    IF a \in DOMAIN cfg.wrap_plaintexts
          /\ CheckAuth(cfg.basic_auth, req.headers, "proxy-authorization").authed
    THEN ReverseProxy(a, req, cfg.wrap_plaintexts[a].host,
                      cfg.wrap_plaintexts[a].port, env)
    ELSE IF (req.version = "HTTP/2" \/ UriHost(req.uri) = None)
             /\ a \notin DOMAIN cfg.wrap_plaintexts
         THEN IF RejectWebContent(cfg)
              THEN Result(Err("PermissionDenied"), <<>>, None, None, None, "internal")
              ELSE Result(ServeHttpRequest(cfg, req.headers, DecodedPath(req.uri.path)),
                          <<Event("serve_http_request", DecodedPath(req.uri.path))>>,
                          None, None, None, "internal")
    ELSE AuthThenProxy(cfg, req, env)

\* proxy.rs 70-134 : a request that is not CONNECT
NonConnectBranch(cfg, req, env) ==
    LET a == RequestAuthority(req) IN
    IF a \in DOMAIN cfg.wrap_plaintexts
    THEN ReverseProxy(a, req, cfg.wrap_plaintexts[a].host,
                      cfg.wrap_plaintexts[a].port, env)
    ELSE IF req.version = "HTTP/2" \/ UriHost(req.uri) = None
         THEN IF RejectWebContent(cfg)
              THEN Result(Err("PermissionDenied"), <<>>, None, None, None, "internal")
              ELSE Result(ServeHttpRequest(cfg, req.headers, DecodedPath(req.uri.path)),
                          <<Event("serve_http_request", DecodedPath(req.uri.path))>>,
                          None, None, None, "internal")
    ELSE AuthThenProxy(cfg, req, env)

\* a dispatcher that lets CONNECT through without looking at the check
Mut_ProxyUngatedConnect(cfg, req, env) ==
    IF req.method # "CONNECT"
    THEN NonConnectBranch(cfg, req, env)
    ELSE ConnectBranch(req, CheckAuth(cfg.basic_auth, req.headers,
                                      "proxy-authorization"), env)

\* proxy.rs 62-281 : ProxyHandler::proxy
Proxy(cfg, req, env) ==
    IF req.method # "CONNECT"
    THEN NonConnectBranch(cfg, req, env)
    ELSE AuthThenProxy(cfg, req, env)

(* ------------------------------------------------------------------ *)
(* Inputs : requests and the behaviour of the network                  *)
(* ------------------------------------------------------------------ *)

A_r == [host |-> H_r, port |-> None]
A_o == [host |-> H_o, port |-> None]
A_o443 == [host |-> H_o, port |-> Some(443)]

\* the credential strings of users a:b and c:d
K_ab == S_BasicPrefix \o Base64Encode(U_ab)
K_cd == S_BasicPrefix \o Base64Encode(U_cd)

\* header values a client may send as credentials: the two keys, a key without
\* its prefix, with a lower-case prefix, with a trailing space, a wrong
\* password ("a:c"), a key followed by a byte that is not UTF-8, and a valid
\* UTF-8 value that is not ASCII
CredValues ==
    { K_ab, K_cd,
      Base64Encode(U_ab),
      S_LowerBasicPrefix \o Base64Encode(U_ab),
      K_ab \o <<32>>,
      S_BasicPrefix \o Base64Encode(<<97, 58, 99>>),
      K_ab \o <<233>>,
      S_BasicPrefix \o <<195, 169>> }

OptHeader(name, opt) ==
    IF opt = None THEN <<>> ELSE << [name |-> name, value |-> opt[1]] >>

MkRequest(method, version, auth, path, host, pa, az, pc) ==
    [method |-> method, version |-> version,
     uri |-> [authority |-> auth, path |-> path, query |-> None],
     headers |-> OptHeader("host", host) \o OptHeader("proxy-connection", pc)
                 \o OptHeader("proxy-authorization", pa)
                 \o OptHeader("authorization", az),
     body |-> "body"]

Opt(S) == {None} \cup {Some(x) : x \in S}

\* every routing shape, with few credentials
RoutingRequests ==
    { MkRequest(m, v, a, IF m = "CONNECT" THEN <<>> ELSE S_PathA, h, pa, None, None) :
        m \in {"GET", "CONNECT"}, v \in {"HTTP/1.1", "HTTP/2"},
        a \in Opt({A_r, A_o443}), h \in Opt({H_r, H_o, H_nonAscii}),
        pa \in Opt({K_ab, K_ab \o <<32>>}) }

\* every credential value on the two proxy shapes
ProxyCredRequests ==
    { MkRequest(m, "HTTP/1.1", Some(a), IF m = "CONNECT" THEN <<>> ELSE S_PathA,
                Some(H_o), pa, None, pc) :
        m \in {"GET", "CONNECT"}, a \in {A_o, A_o443}, pa \in Opt(CredValues),
        pc \in Opt({<<107>>}) }

\* origin-form requests for the internal endpoints, with every credential value
OriginRequests ==
    { MkRequest("GET", "HTTP/1.1", None, p, Some(H_o), None, az, None) :
        p \in {S_Metrics, S_MetricsEncoded, S_Net, S_PathA}, az \in Opt(CredValues) }
    \cup
    { MkRequest("GET", "HTTP/2", Some(A_o443), S_Metrics, None, pa, az, None) :
        pa \in Opt({K_ab}), az \in Opt({K_ab, K_cd \o <<32>>}) }

\* "chunked", "gzip", "1", "k"
S_Chunked == <<99, 104, 117, 110, 107, 101, 100>>
S_Gzip == <<103, 122, 105, 112>>
S_One == <<49>>
S_K == <<107>>

Header(name, value) == [name |-> name, value |-> value]

WithHeaders(r, hs) == [r EXCEPT !.headers = @ \o hs]

\* the framing headers a request may carry: none, Content-Length,
\* Transfer-Encoding, or both
FramingHeaders ==
    { <<>>,
      << Header("content-length", S_One) >>,
      << Header("transfer-encoding", S_Gzip) >>,
      << Header("accept", S_K), Header("content-length", S_One),
         Header("transfer-encoding", S_Chunked) >> }

\* requests that differ in the headers the handlers rewrite: forward requests
\* with repeated proxy headers among others, and requests for the
\* reverse-proxy entry with one or two Host headers and every framing
HeaderRequests ==
    { WithHeaders(MkRequest("POST", "HTTP/1.1", Some(A_o443), S_PathA, Some(H_o),
                            Some(K_ab), None, Some(S_K)), hs) :
        hs \in { << Header("accept", S_K) >>,
                 << Header("accept", S_K), Header("proxy-authorization", K_cd),
                    Header("content-length", S_One),
                    Header("proxy-connection", S_Gzip) >> } }
    \cup
    { WithHeaders(MkRequest("POST", "HTTP/1.1", None, S_PathA, Some(H_r),
                            None, None, None), dup \o fr) :
        dup \in { <<>>, << Header("host", H_o) >> }, fr \in FramingHeaders }

Requests == RoutingRequests \cup ProxyCredRequests \cup OriginRequests
            \cup HeaderRequests

\* responses an upstream may give: a plain 200 and a 401 challenge of its own
UpstreamResponses ==
    { [status |-> StatusOk, headers |-> <<>>, body |-> "upstream"],
      [status |-> StatusUnauthorized,
       headers |-> << [name |-> "www-authenticate", value |-> S_Realm] >>,
       body |-> "upstream"] }

\* bound on the padding counts tried besides the largest one
MaxPadding == 2

\* a range that starts at zero: gen_range(0..max_num)
Mut_PaddingCountsFromZero(ip) ==
    {c \in 0..(MaxNum(ip) - 1) : c <= MaxPadding \/ c = MaxNum(ip) - 1}

\* rand::thread_rng().gen_range(1..max_num)
PaddingCounts(ip) ==
    {c \in 1..(MaxNum(ip) - 1) : c <= MaxPadding \/ c = MaxNum(ip) - 1}

\* one run of the handler sees the network's answers, a random count and the
\* address the process holds as LOCAL_IP
MkEnv(dial, handshake, send, count) ==
    [dial |-> dial, handshake |-> handshake, send |-> send, count |-> count,
     local_ip |-> LOCAL_IP]

\* the outcomes of dialing, of the client handshake, of send_request, and the
\* random padding count
Envs ==
    { MkEnv(d, TRUE, None, 1) : d \in {"ConnectionRefused", "TimedOut"} }
    \cup { MkEnv("ok", FALSE, None, 1) }
    \cup { MkEnv("ok", TRUE, s, 1) : s \in Opt(UpstreamResponses) }
    \cup UNION { { [MkEnv("ok", TRUE, None, c) EXCEPT !.local_ip = ip] :
                      c \in PaddingCounts(ip) } : ip \in LocalIps }

(* ------------------------------------------------------------------ *)
(* State                                                               *)
(* ------------------------------------------------------------------ *)

VARIABLES
    config,         \* the process-wide Config
    now,            \* the clock read by Instant::now(), in seconds
    ctx,            \* the connection's Context {instant, upgraded}
    conn,           \* the served connection: "serving", "finished", "dropped"
    sup_pc,         \* the supervisor loop: "read", "select", "done"
    last_instant,   \* the supervisor's local last_instant
    fired,          \* Option: the last firing of the idle timer (what it read, what it did)
    phase,          \* the request in hand: "idle", "running", "done"
    req,            \* Option: the request being handled
    res,            \* Option: what the handler produced for it
    tasks,          \* the upgrade tasks spawned by CONNECT, oldest first
    aborted,        \* the request dropped with the connection: "no", "running", "streaming"
    proxy_traffic,  \* metrics.proxy_traffic: the byte counter of each AccessLabel
    reported,       \* the bytes the transport reported on target-side streams so far
    tunnel_warns,   \* the warn! lines the tunnel tasks logged
    boot,           \* Option: the startup in progress (parameters, stage, what load produced)
    tls,            \* Option: the TLS refresh task, its broadcast channel and the listeners
    srv             \* Option: one accept loop and the connection tasks it spawned

\* the metrics and log lines of the target-side streams
mvars == <<proxy_traffic, reported, tunnel_warns>>

\* startup and the TLS refresh machinery
svars == <<boot, tls, srv>>

\* one served connection and its streams
cvars == <<config, now, ctx, conn, sup_pc, last_instant, fired,
           phase, req, res, tasks, aborted, proxy_traffic, reported, tunnel_warns>>

vars == <<config, now, ctx, conn, sup_pc, last_instant, fired,
          phase, req, res, tasks, aborted, proxy_traffic, reported, tunnel_warns,
          boot, tls, srv>>

\* IDLE_SECONDS of a debug build
IDLE_SECONDS == 5

\* bound on the clock
MaxTime == 11

\* bound on the upgrade tasks alive at once
MaxTasks == 1

\* Context::default()
DefaultContext(t) == [instant |-> t, upgraded |-> FALSE]

\* Context::refresh
Refresh(c, t) == [c EXCEPT !.instant = t]

\* a tunnel task that leaves the Context as it was
Mut_MarkUpgradedNever(c) == c

\* the tunnel task marks the connection once the upgrade completed
MarkUpgraded(c) == [c EXCEPT !.upgraded = TRUE]

InitConn(cfgs) ==
    /\ config \in cfgs
    /\ now = 0
    /\ ctx = DefaultContext(0)
    /\ conn = "serving"
    /\ sup_pc = "read"
    /\ last_instant = 0
    /\ fired = None
    /\ phase = "idle"
    /\ req = None
    /\ res = None
    /\ tasks = <<>>
    /\ aborted = "no"
    /\ proxy_traffic = {}
    /\ reported = 0
    /\ tunnel_warns = {}

InitWith(cfgs) ==
    /\ InitConn(cfgs)
    /\ boot = None
    /\ tls = None
    /\ srv = None

(* ------------------------------------------------------------------ *)
(* Request handling : main.rs proxy() and ProxyHandler::proxy          *)
(* ------------------------------------------------------------------ *)

\* a service function that starts the handler without touching the Context
Mut_ArriveNoRefresh(r) ==
    /\ conn = "serving"
    /\ sup_pc # "done"
    /\ phase = "idle"
    /\ now + IDLE_SECONDS <= MaxTime
    /\ ctx' = ctx
    /\ phase' = "running"
    /\ req' = Some(r)
    /\ UNCHANGED <<svars, config, now, conn, sup_pc, last_instant, fired, res, tasks,
                   aborted>>
    /\ UNCHANGED mvars

\* a request reaches the service: main.rs proxy() refreshes the Context and
\* starts the handler (requests and connections start early enough for their
\* idle timer to fall inside the clock's bound)
Arrive(r) ==
    /\ conn = "serving"
    /\ sup_pc # "done"
    /\ phase = "idle"
    /\ now + IDLE_SECONDS <= MaxTime
    /\ ctx' = Refresh(ctx, now)
    /\ phase' = "running"
    /\ req' = Some(r)
    /\ UNCHANGED <<svars, config, now, conn, sup_pc, last_instant, fired, res, tasks,
                   aborted>>
    /\ UNCHANGED mvars

NewTask(spawned) ==
    [addr |-> spawned.addr, username |-> spawned.username,
     authed |-> spawned.authed, st |-> "spawned", io |-> None]

\* the handler runs to its return value
Handle(env) ==
    /\ conn = "serving"
    /\ sup_pc # "done"
    /\ phase = "running"
    /\ LET r == Proxy(config, req[1], env) IN
       /\ res' = Some(r)
       /\ tasks' = IF r.spawned = None THEN tasks
                   ELSE Append(tasks, NewTask(r.spawned[1]))
    /\ phase' = "done"
    /\ UNCHANGED <<svars, config, now, ctx, conn, sup_pc, last_instant, fired, req,
                   aborted>>
    /\ UNCHANGED mvars

\* the engine ends the exchange: a response is written to the client; an error
\* on an HTTP/1 connection ends the connection
Deliver ==
    /\ conn = "serving"
    /\ sup_pc # "done"
    /\ phase = "done"
    /\ phase' = "idle"
    /\ req' = None
    /\ res' = None
    /\ tasks' = [i \in 1..Len(tasks) |->
                    IF tasks[i].st = "spawned"
                    THEN [tasks[i] EXCEPT !.st = "ready"] ELSE tasks[i]]
    /\ conn' = IF res[1].out.err # None /\ req[1].version # "HTTP/2"
               THEN "finished" ELSE conn
    /\ UNCHANGED <<svars, config, now, ctx, sup_pc, last_instant, fired, aborted>>
    /\ UNCHANGED mvars

RemoveAt(seq, i) == SubSeq(seq, 1, i - 1) \o SubSeq(seq, i + 1, Len(seq))

\* hyper::upgrade::on(req) resolves: the task owns the raw stream
UpgradeOk(i) ==
    /\ i \in 1..Len(tasks)
    /\ tasks[i].st = "ready"
    /\ conn = "serving"
    /\ tasks' = [tasks EXCEPT ![i].st = "upgraded"]
    /\ ctx' = MarkUpgraded(ctx)
    /\ UNCHANGED <<svars, config, now, conn, sup_pc, last_instant, fired, phase, req,
                   res, aborted>>
    /\ UNCHANGED mvars

\* hyper::upgrade::on(req) fails: the task logs and ends
UpgradeErr(i) ==
    /\ i \in 1..Len(tasks)
    /\ tasks[i].st \in {"spawned", "ready"}
    /\ conn # "serving"
    /\ tasks' = RemoveAt(tasks, i)
    /\ UNCHANGED <<svars, config, now, ctx, conn, sup_pc, last_instant, fired, phase,
                   req, res, aborted>>
    /\ UNCHANGED mvars

\* a string ToSocketAddrs can take apart: it has a colon before its port
SocketAddrForm(addr) == \E k \in 1..Len(addr) : addr[k] = ColonByte

\* a task that dials without awaiting the upgrade
Mut_TunnelDialBeforeUpgrade(i, ok) ==
    /\ i \in 1..Len(tasks)
    /\ tasks[i].st \in {"spawned", "ready", "upgraded"}
    /\ ok => SocketAddrForm(tasks[i].addr)
    /\ tasks' = IF ok THEN [tasks EXCEPT ![i].st = "copying"] ELSE RemoveAt(tasks, i)
    /\ UNCHANGED <<svars, config, now, ctx, conn, sup_pc, last_instant, fired, phase,
                   req, res, aborted>>
    /\ UNCHANGED mvars

\* TcpStream::connect(addr) in the task; an addr without a port fails before
\* anything is dialed
TunnelDial(i, ok) ==
    /\ i \in 1..Len(tasks)
    /\ tasks[i].st = "upgraded"
    /\ ok => SocketAddrForm(tasks[i].addr)
    /\ tasks' = IF ok THEN [tasks EXCEPT ![i].st = "copying"] ELSE RemoveAt(tasks, i)
    /\ UNCHANGED <<svars, config, now, ctx, conn, sup_pc, last_instant, fired, phase,
                   req, res, aborted>>
    /\ UNCHANGED mvars

\* copy_bidirectional returns (either side closed, an io error, or the idle
\* timeout of the upstream stream)
TunnelEnd(i) ==
    /\ i \in 1..Len(tasks)
    /\ tasks[i].st = "copying"
    /\ tasks' = RemoveAt(tasks, i)
    /\ UNCHANGED <<svars, config, now, ctx, conn, sup_pc, last_instant, fired, phase,
                   req, res, aborted>>
    /\ UNCHANGED mvars

(* ------------------------------------------------------------------ *)
(* Connection supervisor : the loop of main.rs serve()                 *)
(* ------------------------------------------------------------------ *)

\* top of the loop: let last_instant = context.read().instant
SupRead ==
    /\ sup_pc = "read"
    /\ last_instant' = ctx.instant
    /\ sup_pc' = "select"
    /\ UNCHANGED <<svars, config, now, ctx, conn, fired, phase, req, res, tasks, aborted>>
    /\ UNCHANGED mvars

\* select! branch: the connection future completed; break
SupConnDone ==
    /\ sup_pc = "select"
    /\ conn = "finished"
    /\ sup_pc' = "done"
    /\ UNCHANGED <<svars, config, now, ctx, conn, last_instant, fired, phase, req, res,
                   tasks, aborted>>
    /\ UNCHANGED mvars

\* an idle test that does not look at upgraded
Mut_IdleTestNoUpgraded(upgraded, instant, last) == instant <= last

\* an idle test with a strict comparison
Mut_IdleTestStrict(upgraded, instant, last) == ~upgraded /\ instant < last

\* an idle test that does not compare the instants
Mut_IdleTestIgnoresInstant(upgraded, instant, last) == ~upgraded

\* the test of the timer branch: !upgraded && instant <= last_instant
IdleTest(upgraded, instant, last) == ~upgraded /\ instant <= last

\* how often the idle timer has fired on this connection
Firings == IF fired = None THEN 0 ELSE fired[1].n

\* select! branch: sleep_until(last_instant + IDLE_SECONDS) fired.  On the idle
\* test the supervisor calls graceful_shutdown and breaks, which ends the task
\* and drops the connection with whatever it still holds
SupTimer ==
    /\ sup_pc = "select"
    /\ conn # "dropped"
    /\ now >= last_instant + IDLE_SECONDS
    /\ LET upgraded == ctx.upgraded
           instant == ctx.instant
       IN IF IdleTest(upgraded, instant, last_instant)
          THEN /\ fired' = Some([upgraded |-> upgraded, instant |-> instant,
                                last |-> last_instant, at |-> now,
                                n |-> Firings + 1,
                                did |-> "graceful_shutdown"])
               /\ sup_pc' = "done"
               /\ conn' = "dropped"
               /\ aborted' = IF conn = "serving" /\ phase = "running" THEN "running"
                             ELSE IF conn = "serving" /\ phase = "done" THEN "streaming"
                             ELSE aborted
               /\ phase' = "idle"
               /\ req' = None
               /\ res' = None
               /\ UNCHANGED ctx
          ELSE /\ ctx' = IF upgraded THEN Refresh(ctx, now) ELSE ctx
               /\ fired' = Some([upgraded |-> upgraded, instant |-> instant,
                                last |-> last_instant, at |-> now,
                                n |-> Firings + 1,
                                did |-> IF upgraded THEN "refresh" ELSE "loop"])
               /\ sup_pc' = "read"
               /\ UNCHANGED <<conn, aborted, phase, req, res>>
    /\ UNCHANGED <<svars, config, now, last_instant, tasks>>
    /\ UNCHANGED mvars

\* the engine completes by itself: the client closed, the transport failed, or
\* an HTTP/1 upgrade handed the stream over
EngineFinish ==
    /\ conn = "serving"
    /\ conn' = "finished"
    /\ phase' = "idle"
    /\ req' = None
    /\ res' = None
    /\ UNCHANGED <<svars, config, now, ctx, sup_pc, last_instant, fired, tasks, aborted>>
    /\ UNCHANGED mvars

\* the accept loop spawns the next connection task with a fresh Context
Accept ==
    /\ sup_pc = "done"
    /\ tasks = <<>>
    /\ now + IDLE_SECONDS <= MaxTime
    /\ ctx' = DefaultContext(now)
    /\ conn' = "serving"
    /\ sup_pc' = "read"
    /\ fired' = None
    /\ aborted' = "no"
    /\ phase' = "idle"
    /\ req' = None
    /\ res' = None
    /\ UNCHANGED <<svars, config, now, last_instant, tasks>>
    /\ UNCHANGED mvars

\* time passes
Tick ==
    /\ now < MaxTime
    /\ now' = now + 1
    /\ UNCHANGED <<svars, config, ctx, conn, sup_pc, last_instant, fired, phase, req,
                   res, tasks, aborted>>
    /\ UNCHANGED mvars

TaskStep ==
    \E i \in 1..MaxTasks :
        \/ UpgradeOk(i)
        \/ UpgradeErr(i)
        \/ \E ok \in BOOLEAN : TunnelDial(i, ok)
        \/ TunnelEnd(i)

(* ------------------------------------------------------------------ *)
(* Specifications                                                      *)
(* ------------------------------------------------------------------ *)

\* requests that arrive while tunnels are alive: forward GETs with and without
\* credentials
FollowUpRequests ==
    { MkRequest("GET", "HTTP/1.1", Some(A_o443), S_PathA, Some(H_o), pa, None, None) :
        pa \in Opt({K_ab}) }

\* the CONNECT that opens a further tunnel next to a live one
FollowUpConnects ==
    { MkRequest("CONNECT", "HTTP/2", Some(A_o443), <<>>, None, Some(K_ab), None, None) }

\* any request arrives while no tunnel is alive; next to live tunnels the
\* follow-up requests arrive at any time, and a further CONNECT while fewer than
\* MaxTasks tunnels are alive
MayArrive(r) ==
    IF tasks = <<>> THEN TRUE
    ELSE r \in FollowUpRequests
         \/ (r \in FollowUpConnects /\ Len(tasks) < MaxTasks)

\* the dispatcher on one connection at a time, over every configuration and
\* request; the clock stands still
Init == InitWith(Configs)

Next ==
    \/ \E r \in Requests :
          /\ MayArrive(r)
          /\ Arrive(r)
    \/ \E env \in Envs : Handle(env)
    \/ Deliver
    \/ TaskStep
    \/ SupRead
    \/ SupConnDone
    \/ EngineFinish
    \/ Accept

Spec == Init /\ [][Next]_vars

\* the supervisor against the clock, on one configuration and a few requests:
\* an authenticated CONNECT over HTTP/2, an authenticated forward GET, and a
\* forward GET without credentials
SupConfigs ==
    { [basic_auth |-> BasicAuthOf(<<U_ab>>), never_ask_for_auth |-> FALSE,
       wrap_plaintexts |-> NoWraps] }

SupRequests ==
    { MkRequest("CONNECT", "HTTP/2", Some(A_o443), <<>>, None, Some(K_ab), None, None),
      MkRequest("GET", "HTTP/1.1", Some(A_o443), S_PathA, Some(H_o), Some(K_ab), None, None),
      MkRequest("GET", "HTTP/1.1", Some(A_o443), S_PathA, Some(H_o), None, None, None) }

SupEnvs ==
    { MkEnv("ok", TRUE, Some([status |-> StatusOk, headers |-> <<>>, body |-> "upstream"]), 1),
      MkEnv("ConnectionRefused", TRUE, None, 1) }

InitSupervisor == InitWith(SupConfigs)

NextSupervisor ==
    \/ \E r \in SupRequests :
          /\ r.method = "CONNECT" => Len(tasks) < MaxTasks
          /\ Arrive(r)
    \/ \E env \in SupEnvs : Handle(env)
    \/ Deliver
    \/ TaskStep
    \/ SupRead
    \/ SupConnDone
    \/ SupTimer
    \/ EngineFinish
    \/ Accept
    \/ Tick

\* the runtime schedules a ready supervisor task and its timers fire
SpecSupervisor ==
    /\ InitSupervisor
    /\ [][NextSupervisor]_vars
    /\ WF_vars(Tick)
    /\ WF_vars(SupRead)
    /\ WF_vars(SupTimer)
    /\ WF_vars(SupConnDone)

(* ------------------------------------------------------------------ *)
(* Target-side streams : io_x::CounterIO and io_x::TimeoutIO           *)
(* ------------------------------------------------------------------ *)

\* what the transport answers to one read or write: Ok(n) or Err(kind)
IoOk(n) == [err |-> None, n |-> n]
IoErr(kind) == [err |-> Some(kind), n |-> 0]

\* Family::get_or_create(label).get(): a label never used counts nothing
Counter(traffic, label) ==
    IF \E e \in traffic : e.label = label
    THEN (CHOOSE e \in traffic : e.label = label).bytes
    ELSE 0

\* CounterIO: a read or write that succeeded with n bytes adds n to the counter
\* of the stream's label (Family::get_or_create(label).inc_by(n)); an error
\* passes through and adds nothing
CounterIO(traffic, label, outcome) ==
    IF outcome.err = None
    THEN {e \in traffic : e.label # label}
             \cup {[label |-> label, bytes |-> Counter(traffic, label) + outcome.n]}
    ELSE traffic

\* TimeoutIO: an operation started at `started` that made no progress for
\* `timeout` seconds fails with TimedOut
TimeoutIO(started, timeout, t) == t >= started + timeout

\* bound on the bytes the transport moves in one behaviour
MaxBytes == 3

\* the byte counts one read or write reports
ChunkSizes == {1, 2}

\* the stream of the tunnel at position i
Io(i) == tasks[i].io[1]

Copying(i) ==
    /\ i \in 1..Len(tasks)
    /\ tasks[i].st = "copying"
    /\ tasks[i].io # None

TunnelLabel(i) == ConnectLabel(tasks[i].addr, tasks[i].username)

\* tunnel() wraps the counted stream in TimeoutIO and polls copy_bidirectional
\* for the first time: a read on the target stream is pending from now on
CopyBegin(i) ==
    /\ i \in 1..Len(tasks)
    /\ tasks[i].st = "copying"
    /\ tasks[i].io = None
    /\ tasks' = [tasks EXCEPT ![i].io =
                    Some([up |-> "open", down |-> "open", rstart |-> now,
                          wstart |-> None])]
    /\ UNCHANGED <<svars, config, now, ctx, conn, sup_pc, last_instant, fired, phase,
                   req, res, aborted, mvars>>

\* copy_bidirectional returns Ok once both directions are done
AfterEof(i, io) ==
    IF io.up = "done" /\ io.down = "done"
    THEN RemoveAt(tasks, i)
    ELSE [tasks EXCEPT ![i].io = Some(io)]

\* the target sends n bytes: the pending read succeeds and the next one starts
TargetData(i, n) ==
    /\ Copying(i)
    /\ Io(i).down = "open"
    /\ now + IDLE_SECONDS <= MaxTime
    /\ reported + n <= MaxBytes
    /\ proxy_traffic' = CounterIO(proxy_traffic, TunnelLabel(i), IoOk(n))
    /\ reported' = reported + n
    /\ tasks' = [tasks EXCEPT ![i].io = Some([Io(i) EXCEPT !.rstart = now])]
    /\ UNCHANGED <<svars, config, now, ctx, conn, sup_pc, last_instant, fired, phase,
                   req, res, aborted, tunnel_warns>>

\* the target closes its side: the read returns 0 bytes, the copy shuts down
\* the client's write side and keeps copying the other direction
TargetEof(i) ==
    /\ Copying(i)
    /\ Io(i).down = "open"
    /\ proxy_traffic' = CounterIO(proxy_traffic, TunnelLabel(i), IoOk(0))
    /\ tasks' = AfterEof(i, [Io(i) EXCEPT !.down = "done"])
    /\ UNCHANGED <<svars, config, now, ctx, conn, sup_pc, last_instant, fired, phase,
                   req, res, aborted, reported, tunnel_warns>>

\* the copy future fails as a whole: tunnel() returns the error and the task
\* logs it with warn!
CopyFails(i, kind) ==
    /\ tasks' = RemoveAt(tasks, i)
    /\ tunnel_warns' = tunnel_warns \cup
           {[line |-> "tunnel io error", label |-> TunnelLabel(i), kind |-> kind]}

\* a read on the target stream fails
TargetReadErr(i) ==
    /\ Copying(i)
    /\ Io(i).down = "open"
    /\ proxy_traffic' = CounterIO(proxy_traffic, TunnelLabel(i), IoErr("ConnectionReset"))
    /\ CopyFails(i, "ConnectionReset")
    /\ UNCHANGED <<svars, config, now, ctx, conn, sup_pc, last_instant, fired, phase,
                   req, res, aborted, reported>>

\* the client sends bytes: a write on the target stream starts
ClientData(i) ==
    /\ Copying(i)
    /\ Io(i).up = "open"
    /\ Io(i).wstart = None
    /\ now + IDLE_SECONDS <= MaxTime
    /\ tasks' = [tasks EXCEPT ![i].io = Some([Io(i) EXCEPT !.wstart = Some(now)])]
    /\ UNCHANGED <<svars, config, now, ctx, conn, sup_pc, last_instant, fired, phase,
                   req, res, aborted, mvars>>

\* the pending write on the target stream succeeds with n bytes
TargetWriteOk(i, n) ==
    /\ Copying(i)
    /\ Io(i).wstart # None
    /\ reported + n <= MaxBytes
    /\ proxy_traffic' = CounterIO(proxy_traffic, TunnelLabel(i), IoOk(n))
    /\ reported' = reported + n
    /\ tasks' = [tasks EXCEPT ![i].io = Some([Io(i) EXCEPT !.wstart = None])]
    /\ UNCHANGED <<svars, config, now, ctx, conn, sup_pc, last_instant, fired, phase,
                   req, res, aborted, tunnel_warns>>

\* the pending write on the target stream fails
TargetWriteErr(i) ==
    /\ Copying(i)
    /\ Io(i).wstart # None
    /\ proxy_traffic' = CounterIO(proxy_traffic, TunnelLabel(i), IoErr("ConnectionReset"))
    /\ CopyFails(i, "ConnectionReset")
    /\ UNCHANGED <<svars, config, now, ctx, conn, sup_pc, last_instant, fired, phase,
                   req, res, aborted, reported>>

\* the client closes its side: the copy shuts down the target's write side and
\* keeps copying the other direction
ClientEof(i) ==
    /\ Copying(i)
    /\ Io(i).up = "open"
    /\ Io(i).wstart = None
    /\ tasks' = AfterEof(i, [Io(i) EXCEPT !.up = "done"])
    /\ UNCHANGED <<svars, config, now, ctx, conn, sup_pc, last_instant, fired, phase,
                   req, res, aborted, mvars>>

\* a read on the upgraded client stream fails
ClientReadErr(i) ==
    /\ Copying(i)
    /\ Io(i).up = "open"
    /\ CopyFails(i, "ConnectionReset")
    /\ UNCHANGED <<svars, config, now, ctx, conn, sup_pc, last_instant, fired, phase,
                   req, res, aborted, proxy_traffic, reported>>

\* an operation is pending on the target stream and has made no progress for
\* IDLE_SECONDS
IdleFired(i) ==
    \/ Io(i).down = "open" /\ TimeoutIO(Io(i).rstart, IDLE_SECONDS, now)
    \/ Io(i).wstart # None /\ TimeoutIO(Io(i).wstart[1], IDLE_SECONDS, now)

\* the pending operation fails with TimedOut: copy_bidirectional(..).await?
\* returns the error, which drops both directions
TunnelTimeout(i) ==
    /\ Copying(i)
    /\ IdleFired(i)
    /\ proxy_traffic' = CounterIO(proxy_traffic, TunnelLabel(i), IoErr("TimedOut"))
    /\ CopyFails(i, "TimedOut")
    /\ UNCHANGED <<svars, config, now, ctx, conn, sup_pc, last_instant, fired, phase,
                   req, res, aborted, reported>>

\* the stream the handler dialed and wrapped carries the exchange while the
\* response is in hand
HandlerStream ==
    /\ conn = "serving"
    /\ phase = "done"
    /\ res[1].io # None
    /\ res[1].out.err = None

\* a read or write on the handler's stream succeeds with n bytes
StreamOk(n) ==
    /\ HandlerStream
    /\ reported + n <= MaxBytes
    /\ proxy_traffic' = CounterIO(proxy_traffic, res[1].io[1].label, IoOk(n))
    /\ reported' = reported + n
    /\ UNCHANGED <<svars, config, now, ctx, conn, sup_pc, last_instant, fired, phase,
                   req, res, tasks, aborted, tunnel_warns>>

\* a read or write on the handler's stream fails: the client connection task
\* of the handler ends and drops the stream
StreamErr ==
    /\ HandlerStream
    /\ proxy_traffic' = CounterIO(proxy_traffic, res[1].io[1].label, IoErr("ConnectionReset"))
    /\ res' = Some([res[1] EXCEPT !.io = None])
    /\ UNCHANGED <<svars, config, now, ctx, conn, sup_pc, last_instant, fired, phase,
                   req, tasks, aborted, reported, tunnel_warns>>

\* the line the task logs when TcpStream::connect fails
EstablishWarn(i) ==
    [line |-> "tunnel establish error", label |-> TunnelLabel(i),
     kind |-> "ConnectionRefused"]

\* a task that goes on to tunnel() whatever the dial returned
Mut_TunnelEstablishIgnoresFailure(i, ok) ==
    /\ i \in 1..Len(tasks)
    /\ tasks[i].st = "upgraded"
    /\ ok => SocketAddrForm(tasks[i].addr)
    /\ tasks' = [tasks EXCEPT ![i].st = "copying"]
    /\ tunnel_warns' = IF ok THEN tunnel_warns
                       ELSE tunnel_warns \cup {EstablishWarn(i)}
    /\ UNCHANGED <<svars, config, now, ctx, conn, sup_pc, last_instant, fired, phase,
                   req, res, aborted, proxy_traffic, reported>>

\* TcpStream::connect(addr) in the task, with what it logs: on Ok the task
\* goes on to tunnel(); on Err it writes [tunnel establish error] and ends,
\* which drops the upgraded stream
TunnelEstablish(i, ok) ==
    /\ i \in 1..Len(tasks)
    /\ tasks[i].st = "upgraded"
    /\ ok => SocketAddrForm(tasks[i].addr)
    /\ tasks' = IF ok THEN [tasks EXCEPT ![i].st = "copying"] ELSE RemoveAt(tasks, i)
    /\ tunnel_warns' = IF ok THEN tunnel_warns
                       ELSE tunnel_warns \cup {EstablishWarn(i)}
    /\ UNCHANGED <<svars, config, now, ctx, conn, sup_pc, last_instant, fired, phase,
                   req, res, aborted, proxy_traffic, reported>>

\* the steps of a tunnel task, the copy taken apart into its transport events
TunnelStep ==
    \E i \in 1..MaxTasks :
        \/ UpgradeOk(i)
        \/ \E ok \in BOOLEAN : TunnelDial(i, ok)
        \/ CopyBegin(i)
        \/ \E n \in ChunkSizes : TargetData(i, n)
        \/ TargetEof(i)
        \/ TargetReadErr(i)
        \/ ClientData(i)
        \/ \E n \in ChunkSizes : TargetWriteOk(i, n)
        \/ TargetWriteErr(i)
        \/ ClientEof(i)
        \/ ClientReadErr(i)
        \/ TunnelTimeout(i)

\* one configuration with a user and a reverse-proxy entry
TunnelConfigs ==
    { [basic_auth |-> BasicAuthOf(<<U_ab>>), never_ask_for_auth |-> FALSE,
       wrap_plaintexts |-> WrapR] }

\* an authenticated CONNECT, an authenticated forward GET and a GET for the
\* reverse-proxied host
TunnelRequests ==
    { MkRequest("CONNECT", "HTTP/2", Some(A_o443), <<>>, None, Some(K_ab), None, None),
      MkRequest("GET", "HTTP/1.1", Some(A_o443), S_PathA, Some(H_o), Some(K_ab), None, None),
      MkRequest("GET", "HTTP/1.1", None, S_PathA, Some(H_r), None, None, None) }

\* time as the streams see it: it is observed only while the copy of a tunnel
\* runs, the one place of this specification where a timer is armed
TunnelTick ==
    /\ \E i \in 1..Len(tasks) : Copying(i)
    /\ Tick

\* one tunnel at a time: the next request arrives once the tunnel before it
\* has ended
NextTunnel ==
    \/ \E r \in TunnelRequests :
          /\ tasks = <<>>
          /\ Arrive(r)
    \/ \E env \in SupEnvs : Handle(env)
    \/ Deliver
    \/ TunnelStep
    \/ \E n \in ChunkSizes : StreamOk(n)
    \/ StreamErr
    \/ TunnelTick

\* the streams against the clock: the runtime polls a spawned task, time
\* passes and the timers of TimeoutIO fire
SpecTunnel ==
    /\ InitWith(TunnelConfigs)
    /\ [][NextTunnel]_vars
    /\ WF_vars(TunnelTick)
    /\ WF_vars(\E i \in 1..MaxTasks : CopyBegin(i))
    /\ WF_vars(\E i \in 1..MaxTasks : TunnelTimeout(i))

(* ------------------------------------------------------------------ *)
(* Properties                                                          *)
(* ------------------------------------------------------------------ *)

NonEmptyTable == DOMAIN config.basic_auth # {}

\* the header the check reads is present, is valid UTF-8 and is a key of the table
HeaderIsKey(table, headers, name) ==
    \E i \in 1..Len(headers) :
        /\ headers[i].name = name
        /\ \A j \in 1..(i - 1) : headers[j].name # name
        /\ IsValidUtf8(headers[i].value)
        /\ headers[i].value \in DOMAIN table

\* the value of the header the check reads
FirstValue(headers, name) ==
    headers[CHOOSE i \in 1..Len(headers) :
                headers[i].name = name /\ \A j \in 1..(i - 1) : headers[j].name # name].value

Handled == res # None

\* the handler ran check_auth on Proxy-Authorization for the request in hand
ProxyAuthRan == Handled /\ res[1].auth # None

\* the request in hand asked the internal endpoints for /metrics
MetricsServed ==
    /\ Handled
    /\ res[1].route = "internal"
    /\ res[1].out.resp # None
    /\ DecodedPath(req[1].uri.path) = S_Metrics

\* the response in hand was relayed from an upstream, not made by the proxy
Relayed == Handled /\ res[1].sent # None /\ res[1].out.resp # None

\* the request in hand is a CONNECT or was taken as a forward-proxy request
OnProxyPath ==
    Handled /\ (req[1].method = "CONNECT" \/ res[1].route = "forward")

HasHeader(resp, name) == \E i \in 1..Len(resp.headers) : resp.headers[i].name = name

\* C1: with a non-empty credential table, authed is true exactly when the
\* checked header (Proxy-Authorization on the proxy paths, Authorization on
\* /metrics) is present, valid UTF-8 and equal to a key of the table, prefix
\* included; the user name returned is then the value stored under that key.
C1_AuthedIffHeaderIsKey ==
    NonEmptyTable =>
        /\ ProxyAuthRan =>
              LET a == res[1].auth[1]
                  hit == HeaderIsKey(config.basic_auth, req[1].headers,
                                     "proxy-authorization")
              IN /\ a.authed <=> hit
                 /\ hit => a.username =
                        config.basic_auth[FirstValue(req[1].headers,
                                                     "proxy-authorization")]
        /\ MetricsServed =>
              LET a == AxumCheckAuth(req[1].headers, config.basic_auth)
                  hit == HeaderIsKey(config.basic_auth, req[1].headers, "authorization")
              IN /\ a.ok <=> hit
                 /\ (res[1].out.resp[1].status = StatusOk) <=> hit
                 /\ hit => a.user =
                        Some(config.basic_auth[FirstValue(req[1].headers,
                                                          "authorization")])

\* user c of a two-user table was authenticated on a proxy path
C1_Witness ==
    /\ ProxyAuthRan
    /\ Cardinality(DOMAIN config.basic_auth) = 2
    /\ res[1].auth[1].authed
    /\ res[1].auth[1].username = <<99>>

\* C2: with an empty credential table every request is authed, whatever its
\* headers, and none is answered 401/407 by the proxy or refused.
C2_EmptyTableAuthsAll ==
    (~NonEmptyTable /\ Handled) =>
        /\ ProxyAuthRan => res[1].auth[1].authed
        /\ AxumCheckAuth(req[1].headers, config.basic_auth).ok
        /\ res[1].out.err # Some("PermissionDenied")
        /\ (res[1].out.resp # None /\ ~Relayed) =>
              res[1].out.resp[1].status \notin {StatusUnauthorized,
                                                StatusProxyAuthRequired}

\* a CONNECT whose Proxy-Authorization is not even UTF-8 got its tunnel
C2_Witness ==
    /\ ~NonEmptyTable
    /\ ProxyAuthRan
    /\ req[1].method = "CONNECT"
    /\ HeaderGet(req[1].headers, "proxy-authorization") = Some(K_ab \o <<233>>)
    /\ res[1].spawned # None
    /\ res[1].out.resp[1].status = StatusOk

\* the request in hand is on a proxy path and its Proxy-Authorization fails
ProxyAuthFails ==
    /\ NonEmptyTable
    /\ OnProxyPath
    /\ ~HeaderIsKey(config.basic_auth, req[1].headers, "proxy-authorization")

\* C3: non-empty table, never_ask_for_auth false: a CONNECT or forward request
\* that fails authentication gets 407 with exactly the header
\* Proxy-Authenticate: Basic realm="are you kidding me", and no error.
C3_Challenge407 ==
    (ProxyAuthFails /\ ~config.never_ask_for_auth) =>
        /\ res[1].out.err = None
        /\ res[1].out.resp # None
        /\ res[1].out.resp[1].status = StatusProxyAuthRequired
        /\ res[1].out.resp[1].headers =
              << [name |-> "proxy-authenticate", value |-> S_Realm] >>

C3_Witness ==
    /\ ProxyAuthFails
    /\ ~config.never_ask_for_auth
    /\ res[1].route = "forward"
    /\ res[1].out.resp[1].status = StatusProxyAuthRequired

\* C4: non-empty table, never_ask_for_auth true: a CONNECT or forward request
\* that fails authentication ends in a permission-denied error and no response.
C4_SilentDenied ==
    (ProxyAuthFails /\ config.never_ask_for_auth) =>
        /\ res[1].out.err = Some("PermissionDenied")
        /\ res[1].out.resp = None

C4_Witness ==
    /\ ProxyAuthFails
    /\ config.never_ask_for_auth
    /\ req[1].method = "CONNECT"
    /\ res[1].out.err = Some("PermissionDenied")

\* the request in hand carries no valid credential for the path it took
Unauthenticated ==
    \/ ProxyAuthFails
    \/ /\ NonEmptyTable
       /\ Handled
       /\ res[1].route = "internal"
       /\ ~HeaderIsKey(config.basic_auth, req[1].headers, "authorization")

OriginFormUnmatched ==
    /\ Handled
    /\ req[1].method # "CONNECT"
    /\ UriHost(req[1].uri) = None
    /\ RequestAuthority(req[1]) \notin DOMAIN config.wrap_plaintexts

ServedInternally ==
    /\ res[1].out.err = None
    /\ res[1].out.resp # None
    /\ res[1].route = "internal"
    /\ \E i \in 1..Len(res[1].log) : res[1].log[i].op = "serve_http_request"

DeniedUnserved ==
    /\ res[1].out = Err("PermissionDenied")
    /\ res[1].log = <<>>

\* C6 as stated: permission-denied when the table is non-empty and
\* never_ask_for_auth is true, served by the internal endpoints otherwise.
C6_Original ==
    OriginFormUnmatched =>
        IF NonEmptyTable /\ config.never_ask_for_auth
        THEN DeniedUnserved ELSE ServedInternally

\* C6: an origin-form non-CONNECT request with no reverse-proxy entry gets a
\* permission-denied error, and nothing is served, when the table is non-empty
\* and never_ask_for_auth is false; in every other configuration the internal
\* endpoint set serves it.
C6_WebContentGuard ==
    OriginFormUnmatched =>
        IF NonEmptyTable /\ ~config.never_ask_for_auth
        THEN DeniedUnserved ELSE ServedInternally

C6_Witness ==
    /\ OriginFormUnmatched
    /\ NonEmptyTable
    /\ ~config.never_ask_for_auth
    /\ DeniedUnserved

\* C7: no dial to a CONNECT target or forward origin and no upgrade task is
\* started unless the request that asked for it passed the check on
\* Proxy-Authorization; earlier requests on the connection do not count.
C7_NoDialWithoutAuth ==
    /\ (OnProxyPath /\ (res[1].spawned # None
                        \/ \E i \in 1..Len(res[1].log) : res[1].log[i].op = "dial")) =>
          /\ ProxyAuthRan
          /\ res[1].auth[1].authed
          /\ NonEmptyTable =>
                HeaderIsKey(config.basic_auth, req[1].headers, "proxy-authorization")
    /\ \A i \in 1..Len(tasks) : tasks[i].authed

\* with a non-empty table, a tunnel copies while a later request without
\* credentials has just been refused
C7_Witness ==
    /\ NonEmptyTable
    /\ Len(tasks) > 0
    /\ tasks[1].st = "copying"
    /\ ProxyAuthFails
    /\ res[1].log = <<Event("check_auth", <<>>)>>

(* ---- C8 ----------------------------------------------------------- *)

\* this step is a firing of the idle timer
TimerFires == fired' # fired /\ fired' # None

\* C8: the supervisor never calls graceful_shutdown on a connection whose
\* Context has upgraded = TRUE: whenever the idle timer fires and upgraded is
\* TRUE it refreshes the Context's instant to the present and goes back to the
\* top of its loop, leaving the connection as it was, at every firing
C8_UpgradedNeverShutDown ==
    /\ [](conn = "dropped" => fired # None /\ ~fired[1].upgraded)
    /\ [][ (TimerFires /\ ctx.upgraded) =>
              /\ fired'[1].did = "refresh"
              /\ ctx' = [instant |-> now, upgraded |-> TRUE]
              /\ sup_pc' = "read"
              /\ conn' = conn ]_vars

\* the timer fired a second time or later on an upgraded connection that saw no
\* request since the supervisor last read the Context, and the tunnel lives on
C8_Witness ==
    /\ fired # None
    /\ fired[1].upgraded
    /\ fired[1].n >= 2
    /\ fired[1].instant <= fired[1].last
    /\ fired[1].did = "refresh"
    /\ sup_pc # "done"
    /\ \E i \in 1..Len(tasks) : tasks[i].st = "copying"

(* ---- C9 ----------------------------------------------------------- *)

\* no request can reach the connection any more and nothing can upgrade it
Quiet ==
    /\ sup_pc # "done"
    /\ ~ctx.upgraded
    /\ tasks = <<>>
    /\ phase = "idle"
    /\ now + IDLE_SECONDS > MaxTime

\* C9: a connection that is not upgraded and on which no request arrives any
\* more is eventually left by its supervisor.  The timer fires no earlier than
\* IDLE_SECONDS after the instant read at the top of the loop; when it fires on
\* a connection that is not upgraded and the Context's instant is not newer
\* than that reading, the supervisor calls graceful_shutdown and exits; when a
\* request arrived in the meantime it goes back to the top of the loop, where it
\* reads the new instant and arms the timer from it
C9_IdleShutdown ==
    /\ Quiet ~> (sup_pc = "done")
    /\ [][ (TimerFires /\ ~ctx.upgraded) =>
              /\ now >= last_instant + IDLE_SECONDS
              /\ IF ctx.instant <= last_instant
                 THEN /\ fired'[1].did = "graceful_shutdown"
                      /\ sup_pc' = "done"
                      /\ conn' = "dropped"
                 ELSE /\ fired'[1].did = "loop"
                      /\ sup_pc' = "read"
                      /\ conn' = conn
                      /\ ctx' = ctx ]_vars
    /\ [][ (sup_pc = "read" /\ sup_pc' = "select") => last_instant' = ctx.instant ]_vars

\* the timer fired once while a request had arrived since the reading, so the
\* supervisor looped; it fired again with no newer request and shut down
C9_Witness ==
    /\ fired # None
    /\ ~fired[1].upgraded
    /\ fired[1].n >= 2
    /\ fired[1].last > 0
    /\ fired[1].instant <= fired[1].last
    /\ fired[1].did = "graceful_shutdown"
    /\ conn = "dropped"
    /\ sup_pc = "done"

(* ---- C10 ---------------------------------------------------------- *)

\* C10: idle closure is graceful: the supervisor never drops the connection
\* while a request is in flight, neither one whose handler is still running
\* nor one whose response is still being written
C10_InFlightCompletes == conn = "dropped" => aborted = "no"

\* an idle shutdown on a connection with nothing in flight
C10_Witness ==
    /\ conn = "dropped"
    /\ aborted = "no"
    /\ fired # None
    /\ fired[1].did = "graceful_shutdown"

(* ---- C11 ---------------------------------------------------------- *)

\* a tunnel task holds the upgraded stream: the upgrade completed and the task
\* is about to dial or is copying
Tunneled(t) == t.st \in {"upgraded", "copying"}

ClaimedAuthority ==
    IF req[1].version = "HTTP/2"
    THEN IF req[1].uri.authority = None THEN <<>>
         ELSE AuthorityToString(req[1].uri.authority[1])
    ELSE IF \E i \in 1..Len(req[1].headers) : req[1].headers[i].name = "host"
         THEN FirstValue(req[1].headers, "host")
         ELSE <<>>

HasReverseEntry == ClaimedAuthority \in DOMAIN config.wrap_plaintexts

LogOps == {res[1].log[i].op : i \in 1..Len(res[1].log)}

\* what each branch does and the others do not: the reverse-proxy handler
\* dials without authenticating, the internal endpoints neither authenticate
\* nor dial, the tunnel and forward handlers authenticate first
RouteTaken(route) ==
    /\ res[1].route = route
    /\ CASE route = "reverse" ->
              /\ res[1].auth = None
              /\ res[1].log # <<>>
              /\ res[1].log[1].op = "dial"
              /\ "serve_http_request" \notin LogOps
         [] route = "internal" ->
              /\ res[1].auth = None
              /\ LogOps \subseteq {"serve_http_request"}
              /\ res[1].spawned = None
         [] route = "connect" ->
              /\ res[1].auth # None
              /\ LogOps \subseteq {"check_auth", "spawn_upgrade"}
         [] route = "forward" ->
              /\ res[1].auth # None
              /\ res[1].spawned = None
              /\ "serve_http_request" \notin LogOps

\* C12 as stated: CONNECT goes to the tunnel handler; a non-CONNECT request
\* whose authority has a reverse-proxy entry goes to the reverse-proxy handler;
\* otherwise one without URI host goes to the internal endpoints and one with a
\* URI host goes to the forward handler, on HTTP/1.1 and HTTP/2 alike.
C12_Original ==
    Handled =>
        IF req[1].method = "CONNECT" THEN RouteTaken("connect")
        ELSE IF HasReverseEntry THEN RouteTaken("reverse")
        ELSE IF UriHost(req[1].uri) = None THEN RouteTaken("internal")
        ELSE RouteTaken("forward")

\* C12: every request takes exactly one branch: CONNECT the tunnel handler; a
\* non-CONNECT request whose authority has a reverse-proxy entry the
\* reverse-proxy handler; otherwise a request that is HTTP/2 or has no URI host
\* the internal endpoints, and only a request with a URI host that is not
\* HTTP/2 the forward handler.
C12_Routing ==
    Handled =>
        IF req[1].method = "CONNECT" THEN RouteTaken("connect")
        ELSE IF HasReverseEntry THEN RouteTaken("reverse")
        ELSE IF req[1].version = "HTTP/2" \/ UriHost(req[1].uri) = None
             THEN RouteTaken("internal")
        ELSE RouteTaken("forward")

\* an HTTP/2 GET with a URI host and no reverse-proxy entry was served by the
\* internal endpoints
C12_Witness ==
    /\ Handled
    /\ req[1].method = "GET"
    /\ req[1].version = "HTTP/2"
    /\ UriHost(req[1].uri) # None
    /\ ~HasReverseEntry
    /\ RouteTaken("internal")
    /\ res[1].out.resp # None

(* ---- C13 ---------------------------------------------------------- *)

IsProxyHeader(h) == h.name \in {"proxy-authorization", "proxy-connection"}

KeptByForward(h) == ~IsProxyHeader(h)

\* the forward handler sent the request in hand to its origin
ForwardSent == Handled /\ res[1].route = "forward" /\ res[1].sent # None

\* C13: the request the forward handler sends to the origin carries no
\* Proxy-Authorization and no Proxy-Connection header, and has the method, the
\* URI, the version, the body and every other header of the inbound request,
\* in their order.
C13_ForwardStripsProxyHeaders ==
    ForwardSent =>
        LET out == res[1].sent[1] IN
        /\ \A i \in 1..Len(out.headers) : ~IsProxyHeader(out.headers[i])
        /\ out.headers = SelectSeq(req[1].headers, KeptByForward)
        /\ out.method = req[1].method
        /\ out.uri = req[1].uri
        /\ out.version = req[1].version
        /\ out.body = req[1].body

\* a request with two Proxy-Authorization and two Proxy-Connection headers
\* among others was forwarded
C13_Witness ==
    /\ ForwardSent
    /\ HeaderCount(req[1].headers, "proxy-authorization") = 2
    /\ HeaderCount(req[1].headers, "proxy-connection") = 2
    /\ HeaderCount(res[1].sent[1].headers, "content-length") = 1
    /\ Len(res[1].sent[1].headers) = Len(req[1].headers) - 4

(* ---- C19 ---------------------------------------------------------- *)

\* the reverse-proxy handler sent the request in hand to its upstream
ReverseSent == Handled /\ res[1].route = "reverse" /\ res[1].sent # None

\* "u:8080", the upstream behind "r" as host:port
S_UpstreamHostPort == <<117, 58, 56, 48, 56, 48>>

HeaderValues(headers, name) ==
    {headers[i].value : i \in {j \in 1..Len(headers) : headers[j].name = name}}

\* C19: every request the reverse-proxy handler sends upstream carries exactly
\* one Host header, whose value is host:port of the selected upstream; no
\* inbound Host value survives, however many the inbound request had.
C19_ReverseHostRewritten ==
    ReverseSent =>
        LET out == res[1].sent[1]
            up == config.wrap_plaintexts[ClaimedAuthority]
        IN /\ HeaderCount(out.headers, "host") = 1
           /\ HeaderValues(out.headers, "host") = {S_UpstreamHostPort}
           /\ up.host = H_u
           /\ HeaderValues(out.headers, "host")
                 \cap HeaderValues(req[1].headers, "host") = {}
           /\ res[1].log[1] = Event("dial", S_UpstreamHostPort)

\* a request with two Host headers was sent upstream
C19_Witness ==
    /\ ReverseSent
    /\ HeaderCount(req[1].headers, "host") = 2
    /\ HeaderValues(req[1].headers, "host") = {H_r, H_o}
    /\ HeaderGet(res[1].sent[1].headers, "host") = Some(S_UpstreamHostPort)

(* ---- C20 ---------------------------------------------------------- *)

IsFramingHeader(h) == h.name \in {"content-length", "transfer-encoding"}

\* C20: a reverse-proxied request with neither Content-Length nor
\* Transfer-Encoding goes out with exactly one Transfer-Encoding: chunked and
\* no Content-Length; one that has either goes out with the Content-Length and
\* Transfer-Encoding headers it came with and no other.
C20_ChunkedWhenUnframed ==
    ReverseSent =>
        LET out == res[1].sent[1]
            inbound == SelectSeq(req[1].headers, IsFramingHeader)
            outbound == SelectSeq(out.headers, IsFramingHeader)
        IN IF inbound = <<>>
           THEN outbound = << [name |-> "transfer-encoding", value |-> S_Chunked] >>
           ELSE outbound = inbound

\* a request without framing headers went out chunked
C20_Witness ==
    /\ ReverseSent
    /\ HeaderCount(req[1].headers, "content-length") = 0
    /\ HeaderCount(req[1].headers, "transfer-encoding") = 0
    /\ HeaderGet(res[1].sent[1].headers, "transfer-encoding") = Some(S_Chunked)
    /\ HeaderCount(res[1].sent[1].headers, "content-length") = 0

\* a request with Transfer-Encoding: gzip and no Content-Length went out as it came
C20_WitnessKept ==
    /\ ReverseSent
    /\ HeaderCount(req[1].headers, "content-length") = 0
    /\ HeaderValues(res[1].sent[1].headers, "transfer-encoding") = {S_Gzip}

(* ---- C14 ---------------------------------------------------------- *)

\* the request in hand is a CONNECT that passed authentication
AuthedConnect ==
    /\ ProxyAuthRan
    /\ req[1].method = "CONNECT"
    /\ res[1].auth[1].authed

\* the request-URI of the request in hand is host:port
UriIsHostPort ==
    /\ req[1].uri.authority # None
    /\ req[1].uri.authority[1].port # None

\* C14: an authenticated CONNECT whose request-URI authority is not host:port
\* (a host without a port, or no authority at all) is answered 400, spawns no
\* upgrade task, dials nothing and returns no error to the engine.
C14_BadAuthority400 ==
    (AuthedConnect /\ ~UriIsHostPort) =>
        /\ res[1].out.err = None
        /\ res[1].out.resp # None
        /\ res[1].out.resp[1].status = StatusBadRequest
        /\ res[1].spawned = None
        /\ "dial" \notin LogOps
        /\ "spawn_upgrade" \notin LogOps

\* a CONNECT without any authority was answered 400
C14_Witness ==
    /\ AuthedConnect
    /\ req[1].uri.authority = None
    /\ res[1].out.resp # None
    /\ res[1].out.resp[1].status = StatusBadRequest
    /\ res[1].spawned = None

(* ---- C15 ---------------------------------------------------------- *)

\* a CONNECT that was accepted: authenticated, with an authority to dial
ConnectAccepted == AuthedConnect /\ res[1].spawned # None

\* C15: every successful CONNECT response has status 200, an empty body and n
\* Server headers, 1 <= n <= 2048 / len(LOCAL_IP), each with the value
\* LOCAL_IP, and nothing else; for every address the process can hold the
\* count is computed without a division by zero or an empty range.
C15_ConnectPadding ==
    ConnectAccepted =>
        /\ res[1].out.err = None
        /\ res[1].out.resp # None
        /\ LET resp == res[1].out.resp[1]
               n == Len(resp.headers)
           IN /\ resp.status = StatusOk
              /\ resp.body = ""
              /\ n >= 1
              /\ \E ip \in LocalIps :
                    /\ Len(ip) # 0
                    /\ n <= 2048 \div Len(ip)
                    /\ \A i \in 1..n : resp.headers[i] = [name |-> "server", value |-> ip]

\* the longest address got the largest count its range holds, 2048 / 15 - 1
C15_Witness ==
    /\ ConnectAccepted
    /\ res[1].out.resp # None
    /\ Len(res[1].out.resp[1].headers) = 135
    /\ Len(res[1].out.resp[1].headers[1].value) = 15

(* ------------------------------------------------------------------ *)
(* C16 : the order of a tunnel's events                                *)
(* ------------------------------------------------------------------ *)

\* the step from state a to state b of the task at position i
TaskMoves(i, a, b) == tasks[i].st = a /\ tasks'[i].st = b

\* the handler returns 200 and leaves a new task waiting for the upgrade
SpawnedWith200 ==
    /\ Len(tasks') = Len(tasks) + 1
    /\ tasks'[Len(tasks')].st = "spawned"
    /\ phase = "running"
    /\ phase' = "done"
    /\ res'[1].out.resp # None
    /\ res'[1].out.resp[1].status = StatusOk

\* a task moves one stage at a time: the 200 is written, then the upgrade
\* completes, then the dial succeeds and the copy starts; the last two happen
\* outside any step of the handler
OneStage(i) ==
    \/ TaskMoves(i, "spawned", "ready")
          /\ phase = "done" /\ phase' = "idle"
          /\ res[1].spawned # None
          /\ res[1].out.resp[1].status = StatusOk
    \/ TaskMoves(i, "ready", "upgraded") /\ phase' = phase /\ res' = res
    \/ TaskMoves(i, "upgraded", "copying") /\ phase' = phase /\ res' = res

\* C16: for every CONNECT tunnel the 200 response is returned to the engine
\* first, then the upgrade completes, then the target is dialed, then the copy
\* starts; no task dials or copies before its upgrade completed, and the
\* handler that spawned the task neither dials nor sends anything itself
C16_TunnelOrder ==
    /\ [](res # None /\ res[1].spawned # None =>
              /\ "dial" \notin LogOps
              /\ res[1].sent = None
              /\ tasks # <<>>
              /\ tasks[Len(tasks)].st = "spawned")
    /\ [][/\ Len(tasks') > Len(tasks) => SpawnedWith200
          /\ Len(tasks') >= Len(tasks) =>
                \A i \in 1..Len(tasks) :
                    tasks'[i].st # tasks[i].st => OneStage(i)]_vars

\* a tunnel copies while the connection keeps serving and no request is in hand
C16_Witness ==
    /\ conn = "serving"
    /\ phase = "idle"
    /\ res = None
    /\ \E i \in 1..Len(tasks) : tasks[i].st = "copying" /\ tasks[i].authed

(* ------------------------------------------------------------------ *)
(* C17 : the end of a tunnel                                           *)
(* ------------------------------------------------------------------ *)

TunnelCopies == \E i \in 1..Len(tasks) : tasks[i].st = "copying"

\* the step on which the idle timeout of a tunnel's target stream fires
TimeoutStep ==
    \E l \in {w.label : w \in tunnel_warns' \ tunnel_warns} :
        [line |-> "tunnel io error", label |-> l, kind |-> "TimedOut"]
            \in tunnel_warns' \ tunnel_warns

\* C17: a CONNECT tunnel always terminates: a tunnel that copies stops copying,
\* and the step on which the idle timeout fires ends the task with both
\* directions at once and logs a tunnel io error
C17_TunnelTerminates ==
    /\ TunnelCopies ~> ~TunnelCopies
    /\ [][TimeoutStep => (TunnelCopies /\ Len(tasks') < Len(tasks))]_vars

\* the target closed its side, the client neither sends nor closes, and the
\* clock ran out: no operation is pending on the target stream
C17_Witness ==
    \E i \in 1..Len(tasks) :
        /\ Copying(i)
        /\ Io(i).down = "done"
        /\ Io(i).up = "open"
        /\ Io(i).wstart = None
        /\ ~IdleFired(i)
        /\ now = MaxTime

(* ------------------------------------------------------------------ *)
(* C18 : the byte counter of the target-side streams                   *)
(* ------------------------------------------------------------------ *)

RECURSIVE SumBytes(_)
SumBytes(traffic) ==
    IF traffic = {} THEN 0
    ELSE LET e == CHOOSE x \in traffic : TRUE
         IN e.bytes + SumBytes(traffic \ {e})

CountedLabels(traffic) == {e.label : e \in traffic}

\* the address the handler dialed
Dialed == res[1].log[CHOOSE k \in 1..Len(res[1].log) : res[1].log[k].op = "dial"].arg

\* the access label of the connection whose request is in hand: the client,
\* the address dialed, and the user (the claimed authority on the
\* reverse-proxy path)
HandlerAccess ==
    [client |-> ClientIp, target |-> Dialed,
     username |-> IF res[1].route = "reverse" THEN ClaimedAuthority
                  ELSE res[1].auth[1].username]

\* the access label of the tunnel at position i
TunnelAccess(i) ==
    [client |-> ClientIp, target |-> tasks[i].addr, username |-> tasks[i].username]

\* the labels of the target-side streams that are open
OpenAccess ==
    {TunnelAccess(i) : i \in {k \in 1..Len(tasks) : tasks[k].st = "copying"}}
        \cup (IF phase = "done" /\ res[1].io # None THEN {HandlerAccess} ELSE {})

\* the labels whose counter moves on this step
Grown ==
    {l \in CountedLabels(proxy_traffic') :
        Counter(proxy_traffic', l) # Counter(proxy_traffic, l)}

DEFAULT_HOST == <<100, 101, 102, 97, 117, 108, 116, 95, 104, 111, 115, 116>>

\* GITHUB_BASE_URLS: "https://github.com", "https://gist.githubusercontent.com",
\* "https://gist.github.com", "https://objects.githubusercontent.com",
\* "https://raw.githubusercontent.com"
GITHUB_BASE_URLS ==
    << <<104, 116, 116, 112, 115, 58, 47, 47, 103, 105, 116, 104, 117, 98, 46, 99, 111, 109>>,
       <<104, 116, 116, 112, 115, 58, 47, 47, 103, 105, 115, 116, 46, 103, 105, 116, 104,
         117, 98, 117, 115, 101, 114, 99, 111, 110, 116, 101, 110, 116, 46, 99, 111, 109>>,
       <<104, 116, 116, 112, 115, 58, 47, 47, 103, 105, 115, 116, 46, 103, 105, 116, 104,
         117, 98, 46, 99, 111, 109>>,
       <<104, 116, 116, 112, 115, 58, 47, 47, 111, 98, 106, 101, 99, 116, 115, 46, 103, 105,
         116, 104, 117, 98, 117, 115, 101, 114, 99, 111, 110, 116, 101, 110, 116, 46, 99,
         111, 109>>,
       <<104, 116, 116, 112, 115, 58, 47, 47, 114, 97, 119, 46, 103, 105, 116, 104, 117, 98,
         117, 115, 101, 114, 99, 111, 110, 116, 101, 110, 116, 46, 99, 111, 109>> >>

\* LocationConfig { location, upstream: Upstream { scheme_and_authority, replacement, .. } }
LocationConfig(location, scheme_and_authority, replacement) ==
    [location |-> location,
     upstream |-> [scheme_and_authority |-> scheme_and_authority,
                   replacement |-> replacement]]

\* the rule pushed for one --append-upstream-url (or GitHub) domain
AppendedRule(domain) == LocationConfig(<<47>> \o domain, domain, <<>>)

\* the empty HashMap<String, Vec<LocationConfig>>
NoRules == [k \in {} |-> <<>>]

\* the byte at which s first holds one of `bytes`, Len(s) + 1 when it holds none
FirstIn(s, bytes) ==
    LET hits == { i \in 1..Len(s) : s[i] \in bytes } IN
    IF hits = {} THEN Len(s) + 1 ELSE CHOOSE i \in hits : \A j \in hits : i <= j

StartsWith(s, prefix) ==
    Len(prefix) <= Len(s) /\ SubSeq(s, 1, Len(prefix)) = prefix

EndsWith(s, suffix) ==
    Len(suffix) <= Len(s) /\ SubSeq(s, Len(s) - Len(suffix) + 1, Len(s)) = suffix

\* the ordering of LocationConfig: a rule with a longer location comes first
LocationBefore(a, b) == Len(a.location) > Len(b.location)

\* Vec::sort is stable: a rule goes behind every rule that is not after it
RECURSIVE SortRules(_)
SortRules(rules) ==
    IF Len(rules) = 0 THEN <<>>
    ELSE LET sorted == SortRules(SubSeq(rules, 1, Len(rules) - 1))
             x == rules[Len(rules)]
             before == { i \in 1..Len(sorted) : ~LocationBefore(x, sorted[i]) }
             k == IF before = {} THEN 0 ELSE CHOOSE i \in before : \A j \in before : j <= i
         IN SubSeq(sorted, 1, k) \o <<x>> \o SubSeq(sorted, k + 1, Len(sorted))

\* a load that leaves the rules in their configured order
Mut_ReverseProxyConfigUnsorted(param) ==
    LET append_upstream_urls ==
            param.append_upstream_url \o
            (IF param.enable_github_proxy THEN GITHUB_BASE_URLS ELSE <<>>)
        file == param.reverse_proxy_config_file
    IN IF append_upstream_urls = <<>> THEN file
       ELSE [k \in (DOMAIN file) \cup {DEFAULT_HOST} |->
                IF k = DEFAULT_HOST
                THEN (IF k \in DOMAIN file THEN file[k] ELSE <<>>) \o
                     [i \in 1..Len(append_upstream_urls) |->
                         AppendedRule(append_upstream_urls[i])]
                ELSE file[k]]

\* Config::try_from, the reverse-proxy rules: the YAML file, then the appended and
\* the GitHub rules pushed onto default_host, then every authority's rules sorted
ReverseProxyConfig(param) ==
    LET append_upstream_urls ==
            param.append_upstream_url \o
            (IF param.enable_github_proxy THEN GITHUB_BASE_URLS ELSE <<>>)
        file == param.reverse_proxy_config_file
        pushed ==
            IF append_upstream_urls = <<>> THEN file
            ELSE [k \in (DOMAIN file) \cup {DEFAULT_HOST} |->
                     IF k = DEFAULT_HOST
                     THEN (IF k \in DOMAIN file THEN file[k] ELSE <<>>) \o
                          [i \in 1..Len(append_upstream_urls) |->
                              AppendedRule(append_upstream_urls[i])]
                     ELSE file[k]]
    IN [k \in DOMAIN pushed |-> SortRules(pushed[k])]

\* Config::try_from
TryFrom(param) ==
    [basic_auth |-> BasicAuthOf(param.users),
     reverse_proxy_config |-> ReverseProxyConfig(param)]

\* what byte may stand in a URI (http::Uri refuses control bytes and the space)
UriByte(b) == b > 32 /\ b < 127

SchemeByte(b) ==
    \/ b \in 48..57 \/ b \in 65..90 \/ b \in 97..122 \/ b \in {43, 45, 46}

\* str::parse::<Uri>: None when the parse fails; path and query are what
\* Uri::path() and Uri::query() return
ParseUri(s) ==
    IF s = <<>> \/ (\E i \in 1..Len(s) : ~UriByte(s[i])) THEN None
    ELSE
    LET colon == FirstIn(s, {58})
        has_scheme == /\ colon > 1
                      /\ colon + 2 <= Len(s)
                      /\ s[colon + 1] = 47 /\ s[colon + 2] = 47
                      /\ \A i \in 1..(colon - 1) : SchemeByte(s[i])
        rest == IF has_scheme THEN SubSeq(s, colon + 3, Len(s)) ELSE s
        path_only == ~has_scheme /\ s[1] = 47
        authority_end == IF path_only THEN 0 ELSE FirstIn(rest, {47, 63, 35}) - 1
        pq == SubSeq(rest, authority_end + 1, FirstIn(rest, {35}) - 1)
        q == FirstIn(pq, {63})
        raw_path == SubSeq(pq, 1, q - 1)
    IN IF has_scheme /\ authority_end = 0 THEN None
       ELSE IF ~has_scheme /\ ~path_only /\ authority_end # Len(rest) THEN None
       ELSE Some([scheme |-> IF has_scheme THEN Some(SubSeq(s, 1, colon - 1)) ELSE None,
                  authority |-> IF path_only THEN None
                                ELSE Some(SubSeq(rest, 1, authority_end)),
                  path |-> IF pq = <<>> /\ ~has_scheme THEN <<>>
                           ELSE IF raw_path = <<>> THEN <<47>> ELSE raw_path,
                  query |-> IF q <= Len(pq) THEN Some(SubSeq(pq, q + 1, Len(pq)))
                            ELSE None])

\* the test load_config makes of one rule: TRUE when none of its panics fires
ValidUpstream(location_config) ==
    LET raw == location_config.upstream.scheme_and_authority
        parsed == ParseUri(raw)
    IN /\ parsed # None
       /\ parsed[1].scheme # None
       /\ parsed[1].authority # None
       /\ ~(parsed[1].path # <<47>> \/ EndsWith(raw, <<47>>))
       /\ parsed[1].query = None

\* a load_config that checks the rules of default_host only
Mut_LoadConfigDefaultHostOnly(param) ==
    LET cfg == TryFrom(param)
        rules == cfg.reverse_proxy_config
    IN IF \A k \in DOMAIN rules \cap {DEFAULT_HOST} :
            \A i \in 1..Len(rules[k]) : ValidUpstream(rules[k][i])
       THEN Ok(cfg) ELSE Err("panic")

\* load_config: Config::try_from, then the loop over every rule of every
\* authority; a panic ends the process before main() reaches serve()
LoadConfig(param) ==
    LET cfg == TryFrom(param)
        rules == cfg.reverse_proxy_config
    IN IF \A k \in DOMAIN rules : \A i \in 1..Len(rules[k]) : ValidUpstream(rules[k][i])
       THEN Ok(cfg) ELSE Err("panic")

\* the rules consulted for a request: those of its authority, else those of
\* default_host
RulesFor(reverse_proxy_config, authority_str) ==
    IF authority_str \in DOMAIN reverse_proxy_config
    THEN Some(reverse_proxy_config[authority_str])
    ELSE IF DEFAULT_HOST \in DOMAIN reverse_proxy_config
         THEN Some(reverse_proxy_config[DEFAULT_HOST])
    ELSE None

\* the first rule, in the order of the list, whose location is a prefix of the path
PickRule(rules, path) ==
    LET hits == { i \in 1..Len(rules) : StartsWith(path, rules[i].location) } IN
    IF hits = {} THEN None
    ELSE Some(rules[CHOOSE i \in hits : \A j \in hits : i <= j])

\* a rewrite that sends the inbound path on as it came
Mut_RewriteUriKeepsPath(location_config, uri) ==
    [authority |-> None, path |-> uri.path, query |-> uri.query]

\* new_path = replacement + path[len(location):], the query kept
RewriteUri(location_config, uri) ==
    [authority |-> None,
     path |-> location_config.upstream.replacement \o
              SubSeq(uri.path, Len(location_config.location) + 1, Len(uri.path)),
     query |-> uri.query]

\* the reverse-proxy handler up to the request it builds: the rule it picked
\* and the URI it sends upstream, None when no rule matches
ReverseRoute(reverse_proxy_config, authority_str, uri) ==
    LET rules == RulesFor(reverse_proxy_config, authority_str)
        picked == IF rules = None THEN None ELSE PickRule(rules[1], uri.path)
    IN [authority |-> authority_str, uri |-> uri, rule |-> picked,
        sent |-> IF picked = None THEN None ELSE Some(RewriteUri(picked[1], uri))]

\* bound on the rules of one authority in the YAML file
MaxRules == 2

\* bound on the --users values
MaxUsers == 2

\* "http://u", "https://u"
S_HttpU == <<104, 116, 116, 112, 58, 47, 47, 117>>
S_HttpsU == <<104, 116, 116, 112, 115, 58, 47, 47, 117>>

\* scheme_and_authority values load_config refuses: "http://u/", "http://u/x",
\* "http://u?q", "u", "/x", "http://", "", "http://u x"
BadUpstreams ==
    { <<104, 116, 116, 112, 58, 47, 47, 117, 47>>,
      <<104, 116, 116, 112, 58, 47, 47, 117, 47, 120>>,
      <<104, 116, 116, 112, 58, 47, 47, 117, 63, 113>>,
      <<117>>,
      <<47, 120>>,
      <<104, 116, 116, 112, 58, 47, 47>>,
      <<>>,
      <<104, 116, 116, 112, 58, 47, 47, 117, 32, 120>> }

\* "/gh", "/gh/a", "/ab", "/", "/v"
S_Gh == <<47, 103, 104>>
S_GhA == <<47, 103, 104, 47, 97>>
S_Ab == <<47, 97, 98>>
S_V == <<47, 118>>

\* rules a YAML file may hold: nested and equal-length locations, one location
\* twice, replacements that are empty, new, or the location again
GoodRules ==
    { LocationConfig(S_Gh, S_HttpU, <<>>),
      LocationConfig(S_Gh, S_HttpU, S_V),
      LocationConfig(S_GhA, S_HttpU, <<>>),
      LocationConfig(S_Ab, S_HttpsU, <<>>),
      LocationConfig(S_Root, S_HttpU, S_Gh) }

BadRules == { LocationConfig(S_Gh, u, <<>>) : u \in BadUpstreams }

RuleLists(rules, n) == UNION { [1..k -> rules] : k \in 0..n }

\* the rule lists of one authority in the YAML file: up to n rules, at most one
\* of them with an upstream load_config refuses, in front or at the end
FileLists(n) ==
    RuleLists(GoodRules, n)
    \cup { <<b>> \o l : b \in BadRules, l \in RuleLists(GoodRules, n - 1) }
    \cup { l \o <<b>> : b \in BadRules, l \in RuleLists(GoodRules, n - 1) }

\* the contents of --reverse-proxy-config-file with up to n rules per authority
RuleFiles(n) ==
    {NoRules}
    \cup { [k \in {a} |-> l] : a \in {H_r, DEFAULT_HOST}, l \in FileLists(n) \ {<<>>} }
    \cup { [k \in {H_r, DEFAULT_HOST} |-> IF k = H_r THEN <<x>> ELSE <<y>>] :
             x \in GoodRules, y \in GoodRules }

\* --users values: "a:b", "c:d", "a:", "", ":b", "a::c", "a:b:c", "a"
RawUsers ==
    { U_ab, U_cd, U_aEmpty, U_default, <<58, 98>>, <<97, 58, 58, 99>>,
      <<97, 58, 98, 58, 99>>, <<97>> }

\* Param: what the command line gives Config::try_from
Params ==
    { [users |-> <<U_default>>, reverse_proxy_config_file |-> f,
       append_upstream_url |-> a, enable_github_proxy |-> g] :
        f \in RuleFiles(MaxRules), a \in {<<>>, <<S_HttpU>>}, g \in BOOLEAN }
    \cup
    { [users |-> <<U_default>>, reverse_proxy_config_file |-> f,
       append_upstream_url |-> <<u>>, enable_github_proxy |-> g] :
        f \in RuleFiles(MaxRules - 1), u \in BadUpstreams, g \in BOOLEAN }
    \cup
    { [users |-> ul, reverse_proxy_config_file |-> NoRules,
       append_upstream_url |-> <<>>, enable_github_proxy |-> FALSE] :
        ul \in UNION { [1..k -> RawUsers] : k \in 1..MaxUsers } }

\* request targets: "/gh/foo?x=1", "/gh/a/b", "/gh/gh/x", "/other",
\* "/https://github.com/x", "/ghh"
S_GhFoo == <<47, 103, 104, 47, 102, 111, 111>>
ReverseUris ==
    { [authority |-> None, path |-> S_GhFoo, query |-> Some(<<120, 61, 49>>)],
      [authority |-> None, path |-> <<47, 103, 104, 104>>, query |-> None],
      [authority |-> None, path |-> <<47, 103, 104, 47, 97, 47, 98>>, query |-> None],
      [authority |-> None, path |-> <<47, 103, 104, 47, 103, 104, 47, 120>>,
       query |-> None],
      [authority |-> None, path |-> <<47, 111, 116, 104, 101, 114>>, query |-> None],
      [authority |-> None,
       path |-> <<47, 104, 116, 116, 112, 115, 58, 47, 47, 103, 105, 116, 104, 117, 98,
                  46, 99, 111, 109, 47, 120>>,
       query |-> None] }

\* Proxy-Authorization values a client presents: "Basic " + Base64 of a --users
\* value, and of "a:x"
PresentedCreds ==
    { S_BasicPrefix \o Base64Encode(u) : u \in RawUsers \cup {<<97, 58, 120>>} }

InitBoot ==
    /\ InitConn({[basic_auth |-> EmptyTable, never_ask_for_auth |-> FALSE,
                  wrap_plaintexts |-> NoWraps]})
    /\ boot \in { Some([stage |-> "start", param |-> p, config |-> None, done |-> None]) :
                    p \in Params }
    /\ tls = None
    /\ srv = None

\* main(): load_config() before any listener is bound; a panic ends the process
Load ==
    /\ boot # None
    /\ boot[1].stage = "start"
    /\ LET r == LoadConfig(boot[1].param) IN
       boot' = IF r.err = None
               THEN Some([boot[1] EXCEPT !.stage = "running", !.config = r.resp])
               ELSE Some([boot[1] EXCEPT !.stage = "panicked"])
    /\ UNCHANGED <<cvars, tls, srv>>

\* a request for a reverse-proxied authority reaches the running process
ReverseHandle(authority_str, uri) ==
    /\ boot # None
    /\ boot[1].stage = "running"
    /\ boot[1].done = None
    /\ boot' = Some([boot[1] EXCEPT !.done =
                  Some([op |-> "reverse",
                        route |-> ReverseRoute(boot[1].config[1].reverse_proxy_config,
                                               authority_str, uri)])])
    /\ UNCHANGED <<cvars, tls, srv>>

\* a request carrying Proxy-Authorization reaches the running process
Authenticate(value) ==
    /\ boot # None
    /\ boot[1].stage = "running"
    /\ boot[1].done = None
    /\ boot' = Some([boot[1] EXCEPT !.done =
                  Some([op |-> "auth", presented |-> value,
                        result |-> CheckAuth(boot[1].config[1].basic_auth,
                                             <<Header("proxy-authorization", value)>>,
                                             "proxy-authorization")])])
    /\ UNCHANGED <<cvars, tls, srv>>

NextBoot ==
    \/ Load
    \/ \E a \in {H_r, H_o}, u \in ReverseUris : ReverseHandle(a, u)
    \/ \E v \in PresentedCreds : Authenticate(v)

SpecBoot == InitBoot /\ [][NextBoot]_vars

(* ------------------------------------------------------------------ *)
(* Properties of startup and of the reverse-proxy rules                *)
(* ------------------------------------------------------------------ *)

\* the last request was reverse-proxied by a rule
Routed ==
    /\ boot # None
    /\ boot[1].done # None
    /\ boot[1].done[1].op = "reverse"
    /\ boot[1].done[1].route.rule # None

\* the URI sent upstream is the replacement followed by what the path holds
\* behind the location, and the query of the request
RewrittenOnce(route) ==
    LET location == route.rule[1].location
        replacement == route.rule[1].upstream.replacement
        path == route.uri.path
        sent == route.sent[1]
        rest == SubSeq(sent.path, Len(replacement) + 1, Len(sent.path))
    IN /\ StartsWith(path, location)
       /\ Len(sent.path) = Len(replacement) + Len(path) - Len(location)
       /\ StartsWith(sent.path, replacement)
       /\ EndsWith(path, rest)
       /\ sent.query = route.uri.query
       /\ sent.authority = None

Running == boot # None /\ boot[1].stage = "running"

\* the rules of an authority in the order they were configured: those of the
\* YAML file, then (for default_host) one per --append-upstream-url value, then
\* the five GitHub rules
ConfiguredRules(param, k) ==
    LET file == param.reverse_proxy_config_file
        urls == param.append_upstream_url \o
                (IF param.enable_github_proxy THEN GITHUB_BASE_URLS ELSE <<>>)
    IN (IF k \in DOMAIN file THEN file[k] ELSE <<>>) \o
       (IF k = DEFAULT_HOST
        THEN [i \in 1..Len(urls) |-> LocationConfig(<<47>> \o urls[i], urls[i], <<>>)]
        ELSE <<>>)

\* the rules of one location length, in the order of the list
OfLength(rules, n) == SelectSeq(rules, LAMBDA r : Len(r.location) = n)

\* c is l ordered by descending length of location, ties in the order of l
StablyOrdered(c, l) ==
    /\ Len(c) = Len(l)
    /\ \A i, j \in 1..Len(c) : i < j => Len(c[i].location) >= Len(c[j].location)
    /\ \A i \in 1..Len(l) :
          OfLength(c, Len(l[i].location)) = OfLength(l, Len(l[i].location))

\* the rule the handler picked is the longest matching prefix among the
\* configured rules, the first configured one among equals; it picked none
\* only when none matches
LongestPrefix(route, configured) ==
    LET matching == { i \in 1..Len(configured) :
                        StartsWith(route.uri.path, configured[i].location) }
    IN IF route.rule = None THEN matching = {}
       ELSE \E i \in matching :
              /\ configured[i] = route.rule[1]
              /\ \A j \in matching :
                    /\ Len(configured[j].location) <= Len(configured[i].location)
                    /\ Len(configured[j].location) = Len(configured[i].location)
                          => i <= j

UserOf(raw) == SubSeq(raw, 1, FirstIn(raw, {ColonByte}) - 1)
PassOf(raw) == SubSeq(raw, FirstIn(raw, {ColonByte}) + 1, Len(raw))
IsPair(raw) == FirstIn(raw, {ColonByte}) <= Len(raw)
Configured(raw) == IsPair(raw) /\ UserOf(raw) # <<>> /\ PassOf(raw) # <<>>
KeyOf(raw) == S_BasicPrefix \o Base64Encode(raw)

\* C26: at load each --users value user:pass with non-empty user and non-empty
\* password (everything after the first colon) yields exactly one entry
\* "Basic " + Base64(user:pass) -> user, each value with an empty user or an
\* empty password yields none, and a client presenting the credential of a
\* configured pair is authenticated as user.
C26_UsersTable ==
    Running =>
        LET users == boot[1].param.users
            table == boot[1].config[1].basic_auth
            pairs == { users[i] : i \in { j \in 1..Len(users) : Configured(users[j]) } }
        IN /\ DOMAIN table = { KeyOf(raw) : raw \in pairs }
           /\ \A raw \in pairs : table[KeyOf(raw)] = UserOf(raw)
           /\ (boot[1].done # None /\ boot[1].done[1].op = "auth") =>
                 \A raw \in pairs :
                    boot[1].done[1].presented = KeyOf(raw)
                       => /\ boot[1].done[1].result.authed
                          /\ boot[1].done[1].result.username = UserOf(raw)

\* --users a:b a::c was loaded: the table holds the entry of a:b only, and the
\* client presenting Basic Base64("a::c") was turned away
C26_Witness ==
    /\ Running
    /\ boot[1].param.users = <<U_ab, <<97, 58, 58, 99>>>>
    /\ DOMAIN boot[1].config[1].basic_auth = {KeyOf(U_ab)}
    /\ boot[1].done # None
    /\ boot[1].done[1].op = "auth"
    /\ boot[1].done[1].presented = KeyOf(<<97, 58, 58, 99>>)
    /\ ~boot[1].done[1].result.authed

\* every way a rule reaches the process: the YAML file, --append-upstream-url,
\* --enable-github-proxy
AllConfigured(param) ==
    UNION { { ConfiguredRules(param, k)[i] : i \in 1..Len(ConfiguredRules(param, k)) } :
              k \in (DOMAIN param.reverse_proxy_config_file) \cup {DEFAULT_HOST} }

\* scheme_and_authority parses as a URI with a scheme and an authority, its path
\* is "/", it does not end with "/", and it has no query
UpstreamOk(raw) ==
    /\ raw \notin BadUpstreams
    /\ LET uri == ParseUri(raw) IN
       /\ uri # None
       /\ uri[1].scheme \in {Some(<<104, 116, 116, 112>>), Some(<<104, 116, 116, 112, 115>>)}
       /\ uri[1].authority # None /\ uri[1].authority # Some(<<>>)
       /\ uri[1].path = <<47>>
       /\ raw[Len(raw)] # 47
       /\ uri[1].query = None

\* C27: startup is fatal, before any connection is served, whenever a rule from
\* the YAML file, --append-upstream-url or --enable-github-proxy fails the
\* validation; so in every running state all rules satisfy it.
C27_StartupValidation ==
    boot # None =>
        LET bad == { r \in AllConfigured(boot[1].param) :
                       ~UpstreamOk(r.upstream.scheme_and_authority) }
        IN /\ boot[1].stage = "running" =>
                /\ bad = {}
                /\ \A k \in DOMAIN boot[1].config[1].reverse_proxy_config :
                      \A i \in 1..Len(boot[1].config[1].reverse_proxy_config[k]) :
                         UpstreamOk(boot[1].config[1].reverse_proxy_config[k][i]
                                       .upstream.scheme_and_authority)
           /\ boot[1].stage = "panicked" => (bad # {} /\ boot[1].done = None)
           /\ bad # {} => (boot[1].stage # "running" /\ boot[1].done = None)

\* the process died at load over the rule of authority r whose upstream ends
\* with "/", the rules of default_host being fine
C27_Witness ==
    /\ boot # None
    /\ boot[1].stage = "panicked"
    /\ boot[1].param.enable_github_proxy
    /\ boot[1].param.append_upstream_url = <<S_HttpU>>
    /\ boot[1].param.reverse_proxy_config_file =
          [k \in {H_r} |->
              <<LocationConfig(S_Gh, <<104, 116, 116, 112, 58, 47, 47, 117, 47>>, <<>>)>>]

(* ------------------------------------------------------------------ *)
(* TLS refresh : the refresh task, the broadcast channel, the listeners *)
(* ------------------------------------------------------------------ *)

\* broadcast::channel::<Arc<ServerConfig>>(10)
CHANNEL_CAPACITY == 10

\* bound on the reloads that succeed
MaxRefresh == 12

\* bound on the TLS connections established
MaxConns == 2

\* the TLS listen ports
Ports == {443}

\* Sender::send: the value is stored for the receivers there are; an error
\* when there is none
BroadcastSend(log, receivers, value) ==
    IF receivers = 0 THEN Err("SendError") ELSE Ok(Append(log, value))

\* Receiver::recv with the receiver's cursor at `next`: the channel keeps the
\* last CHANNEL_CAPACITY values, so a receiver further behind gets
\* RecvError::Lagged; None while nothing was sent past the cursor
BroadcastRecv(log, next) ==
    IF next > Len(log) THEN None
    ELSE IF Len(log) - next + 1 > CHANNEL_CAPACITY THEN Some(Err("Lagged"))
    ELSE Some(Ok(log[next]))

\* TlsAcceptor::new
NewAcceptor(tls_cfg) == [current_config |-> tls_cfg]

\* TlsAcceptor::replace_config: one swap of current_config
ReplaceConfig(acceptor, new_config) == [acceptor EXCEPT !.current_config = new_config]

\* a refresh task that ends at the first reload that fails
Mut_RefreshOnceEndsOnFailure(t, reload_ok) ==
    IF ~reload_ok THEN [t EXCEPT !.refresher = "ended", !.outcome = "reload failed"]
    ELSE LET sent == BroadcastSend(t.log, Cardinality({ q \in DOMAIN t.listeners :
                                       t.listeners[q].state = "accepting" }),
                                   t.version + 1)
         IN IF sent.err = None
            THEN [t EXCEPT !.version = @ + 1, !.log = sent.resp[1],
                           !.outcome = "published"]
            ELSE [t EXCEPT !.version = @ + 1, !.warns = @ + 1,
                           !.outcome = "send failed"]

\* one round of the refresh task's loop after its sleep: tls_config() re-reads
\* key and cert; Ok is sent on the channel, a send error is logged, Err is dropped
RefreshOnce(t, reload_ok) ==
    IF ~reload_ok THEN [t EXCEPT !.outcome = "reload failed"]
    ELSE LET sent == BroadcastSend(t.log, Cardinality({ q \in DOMAIN t.listeners :
                                       t.listeners[q].state = "accepting" }),
                                   t.version + 1)
         IN IF sent.err = None
            THEN [t EXCEPT !.version = @ + 1, !.log = sent.resp[1],
                           !.outcome = "published"]
            ELSE [t EXCEPT !.version = @ + 1, !.warns = @ + 1,
                           !.outcome = "send failed"]

\* a recv branch that only logs the update
Mut_OnMessageNoReplace(l, message) ==
    IF message.err # None THEN [l EXCEPT !.state = "panicked"]
    ELSE [l EXCEPT !.next = @ + 1,
                   !.received = Append(@, message.resp[1]),
                   !.pending = None]

\* the recv branch of serve()'s select!: message.expect(..), then
\* acceptor.replace_config(new_config); the accept future of this round is
\* dropped with the round
OnMessage(l, message) ==
    IF message.err # None THEN [l EXCEPT !.state = "panicked"]
    ELSE [l EXCEPT !.next = @ + 1,
                   !.received = Append(@, message.resp[1]),
                   !.acceptor = ReplaceConfig(@, message.resp[1]),
                   !.pending = None]

\* the process with the refresh task spawned and serve() not yet subscribed on
\* any of its TLS ports
InitTlsWith(ports) ==
    /\ InitConn({[basic_auth |-> EmptyTable, never_ask_for_auth |-> FALSE,
                  wrap_plaintexts |-> NoWraps]})
    /\ boot = None
    /\ srv = None
    /\ tls = Some([alive |-> TRUE, refresher |-> "sleeping", version |-> 0,
                   log |-> <<>>, outcome |-> "none", warns |-> 0,
                   listeners |-> [q \in ports |->
                       [state |-> "init", next |-> 1, received |-> <<>>, initial |-> 0,
                        acceptor |-> NewAcceptor(0), pending |-> None]],
                   conns |-> <<>>])

InitTls == InitTlsWith(Ports)

\* the process is up: no task has panicked
Alive == tls # None /\ tls[1].alive

\* the refresh task wakes from its sleep
RefreshTick(reload_ok) ==
    /\ Alive
    /\ tls[1].refresher = "sleeping"
    /\ tls[1].version < MaxRefresh
    /\ tls' = Some(RefreshOnce(tls[1], reload_ok))
    /\ UNCHANGED <<cvars, boot, srv>>

\* serve() on a TLS port: the acceptor is built from the key and cert on disk
\* and the listener subscribes to the channel (listeners are bound at startup,
\* at most one refresh round ahead of them)
Subscribe(q) ==
    /\ Alive
    /\ tls[1].listeners[q].state = "init"
    /\ tls[1].version <= 1
    /\ tls' = Some([tls[1] EXCEPT !.listeners[q] =
                  [@ EXCEPT !.state = "accepting",
                            !.next = Len(tls[1].log) + 1,
                            !.initial = tls[1].version,
                            !.acceptor = NewAcceptor(tls[1].version)]])
    /\ UNCHANGED <<cvars, boot, srv>>

\* rx.recv() resolves in the listener's select!; a panic of serve() unwinds
\* main() and ends the process
RecvConfig(q) ==
    /\ Alive
    /\ tls[1].listeners[q].state = "accepting"
    /\ LET message == BroadcastRecv(tls[1].log, tls[1].listeners[q].next) IN
       /\ message # None
       /\ LET l == OnMessage(tls[1].listeners[q], message[1]) IN
          tls' = Some([tls[1] EXCEPT !.listeners[q] = l,
                                     !.alive = (l.state # "panicked")])
    /\ UNCHANGED <<cvars, boot, srv>>

\* acceptor.accept() takes a TCP connection and starts its handshake with the
\* acceptor's current config
AcceptStart(q) ==
    /\ Alive
    /\ tls[1].listeners[q].state = "accepting"
    /\ tls[1].listeners[q].pending = None
    /\ Len(tls[1].conns) < MaxConns
    /\ tls' = Some([tls[1] EXCEPT !.listeners[q].pending =
                  Some([config |-> tls[1].listeners[q].acceptor.current_config,
                        seen |-> Len(tls[1].listeners[q].received)])])
    /\ UNCHANGED <<cvars, boot, srv>>

\* the handshake completes: accept() returns the stream and the connection
\* task is spawned with it
AcceptDone(q) ==
    /\ Alive
    /\ tls[1].listeners[q].state = "accepting"
    /\ tls[1].listeners[q].pending # None
    /\ tls' = Some([tls[1] EXCEPT
                  !.listeners[q].pending = None,
                  !.conns = Append(@, [port |-> q,
                                       config |-> tls[1].listeners[q].pending[1].config,
                                       seen |-> tls[1].listeners[q].pending[1].seen])])
    /\ UNCHANGED <<cvars, boot, srv>>

NextTls ==
    \/ \E ok \in BOOLEAN : RefreshTick(ok)
    \/ \E q \in Ports : Subscribe(q)
    \/ \E q \in Ports : RecvConfig(q)
    \/ \E q \in Ports : AcceptStart(q)
    \/ \E q \in Ports : AcceptDone(q)

SpecTls == InitTls /\ [][NextTls]_vars

(* ------------------------------------------------------------------ *)
(* Properties of the TLS refresh                                       *)
(* ------------------------------------------------------------------ *)

\* the config a listener holds after the first n updates it received
ConfigAfter(l, n) == IF n = 0 THEN l.initial ELSE l.received[n]

\* the handshakes of port q: the pending one and the established ones
Handshakes(t, q) ==
    { t.conns[i] : i \in { j \in 1..Len(t.conns) : t.conns[j].port = q } }
    \cup (IF t.listeners[q].pending = None THEN {}
          ELSE { [port |-> q, config |-> t.listeners[q].pending[1].config,
                  seen |-> t.listeners[q].pending[1].seen] })

\* C23: a TLS config received by a listener is used for every handshake the
\* listener starts afterwards and for none that started before; established
\* connections keep the config they handshook with; the acceptor never holds
\* anything but the initial config or the last config received, whole.
C23_ConfigForLaterHandshakes ==
    /\ [](tls # None =>
            \A q \in Ports :
               LET l == tls[1].listeners[q] IN
               /\ l.acceptor.current_config = ConfigAfter(l, Len(l.received))
               /\ \A h \in Handshakes(tls[1], q) :
                     /\ h.seen <= Len(l.received)
                     /\ h.config = ConfigAfter(l, h.seen))
    /\ [][tls # None =>
            /\ \A i \in 1..Len(tls[1].conns) :
                  i <= Len(tls'[1].conns) /\ tls'[1].conns[i] = tls[1].conns[i]
            /\ \A q \in Ports :
                  (tls[1].listeners[q].pending = None
                     /\ tls'[1].listeners[q].pending # None)
                  => /\ tls'[1].listeners[q].pending[1].seen
                           = Len(tls[1].listeners[q].received)
                     /\ tls'[1].listeners[q].pending[1].config
                           = ConfigAfter(tls[1].listeners[q],
                                         Len(tls[1].listeners[q].received))]_vars

\* a connection that handshook with the initial config is still there, two
\* updates later, next to one that handshook with the second update
C23_Witness ==
    /\ Alive
    /\ tls[1].conns = << [port |-> 443, config |-> 0, seen |-> 0],
                         [port |-> 443, config |-> 2, seen |-> 2] >>
    /\ tls[1].listeners[443].acceptor.current_config = 3

\* the listeners subscribed to the channel
Receivers(t) == { q \in Ports : t.listeners[q].state = "accepting" }

\* the refresh task is in its loop and the next round can start
C24_TaskRuns ==
    Alive => /\ tls[1].refresher = "sleeping"
             /\ tls[1].version < MaxRefresh => ENABLED (\E ok \in BOOLEAN : RefreshTick(ok))

\* C24: the refresh task runs forever: a round whose reload succeeds publishes
\* exactly one new config, a round whose reload fails publishes nothing and
\* leaves the listeners with the config they had, a send that fails (no
\* subscriber) is only logged, and after each of them the next round can start.
C24_RefreshTaskKeepsRunning ==
    /\ []C24_TaskRuns
    /\ [][tls # None =>
            LET t == tls[1]
                u == tls'[1]
            IN /\ u.refresher = "sleeping"
               /\ u.version \in {t.version, t.version + 1}
               /\ u.version = t.version + 1 =>
                     IF Receivers(t) # {}
                     THEN /\ u.log = Append(t.log, u.version)
                          /\ u.warns = t.warns
                          /\ u.outcome = "published"
                     ELSE /\ u.log = t.log
                          /\ u.warns = t.warns + 1
                          /\ u.outcome = "send failed"
               /\ u.version = t.version => (u.log = t.log /\ u.warns = t.warns)
               /\ u.outcome # t.outcome =>
                     /\ u.listeners = t.listeners
                     /\ u.conns = t.conns
                     /\ u.alive
               /\ (u.outcome # t.outcome /\ u.outcome = "reload failed") =>
                     (u.version = t.version /\ u.log = t.log)]_vars

\* a send failed before the listener subscribed, later rounds published, the
\* last reload failed: the listener holds the last published config and the
\* task is in its loop
C24_Witness ==
    /\ Alive
    /\ tls[1].refresher = "sleeping"
    /\ tls[1].warns = 1
    /\ tls[1].outcome = "reload failed"
    /\ tls[1].log = <<2, 3>>
    /\ tls[1].listeners[443].acceptor.current_config = 3

\* C25: a listener that falls more than CHANNEL_CAPACITY updates behind loses
\* only the oldest updates: it never panics or terminates because of the lag,
\* the process keeps accepting, and once it has read what the channel holds it
\* uses the most recent published config.
C25_LaggingListenerSurvives ==
    tls # None =>
        /\ tls[1].alive
        /\ \A q \in Ports :
              LET l == tls[1].listeners[q] IN
              /\ l.state # "panicked"
              /\ (l.state = "accepting" /\ l.next > Len(tls[1].log) /\ tls[1].log # <<>>)
                    => l.acceptor.current_config = tls[1].log[Len(tls[1].log)]

\* eleven updates are waiting for the listener of port 443
C25_Witness ==
    /\ Alive
    /\ tls[1].listeners[443].state = "accepting"
    /\ Len(tls[1].log) - tls[1].listeners[443].next + 1 > CHANNEL_CAPACITY

(* ------------------------------------------------------------------ *)
(* Properties of the handler's outcomes                                *)
(* ------------------------------------------------------------------ *)

\* the kinds of io::Error a handler returns
IoErrorKinds == {"PermissionDenied", "ConnectionAborted", "ConnectionRefused", "TimedOut"}

\* C28: for every request and configuration the handler finishes by returning
\* a response or a typed io error; no path panics: the forward branch is
\* entered only with a URI host, and the CONNECT padding draws from a range
\* that is not empty.
C28_HandlerNeverPanics ==
    res # None =>
        LET o == res[1].out IN
        /\ o.err # Some("panic")
        /\ IF o.err = None THEN o.resp # None
           ELSE o.resp = None /\ o.err[1] \in IoErrorKinds
        /\ (res[1].route = "forward" /\ res[1].auth[1].authed)
              => UriHost(req[1].uri) # None
        /\ res[1].spawned # None
              => /\ o.err = None
                 /\ HeaderCount(o.resp[1].headers, "server") >= 1

\* an HTTP/1.1 GET in origin form (no URI host), from a client with valid proxy
\* credentials, was served as web content and not forwarded
C28_Witness ==
    /\ res # None
    /\ req[1].method = "GET"
    /\ req[1].version = "HTTP/1.1"
    /\ UriHost(req[1].uri) = None
    /\ HeaderGet(req[1].headers, "proxy-authorization") = Some(K_ab)
    /\ DOMAIN config.basic_auth # {}
    /\ res[1].route = "internal"
    /\ res[1].out.err = None

\* the request in hand went down the forward path with its credentials accepted
Forwarding(r) == r.route = "forward" /\ r.auth # None /\ r.auth[1].authed

\* "host:port" with the port of the URI, 80 when it has none
ForwardTarget(uri) ==
    UriHost(uri)[1] \o <<ColonByte>> \o
    U16ToString(IF UriPort(uri) = None THEN 80 ELSE UriPort(uri)[1])

\* C30: on the forward path the origin is dialed at the URI host and the URI
\* port, 80 when absent; when the HTTP/1.1 handshake or the send fails the
\* handler returns an io error of kind ConnectionAborted and no response; on
\* success it returns the origin's response, the body being the origin's stream.
C30_ForwardDial ==
    /\ (res # None /\ Forwarding(res[1])) =>
          LET r == res[1] IN
          /\ SelectSeq(r.log, LAMBDA e : e.op = "dial")
                = <<Event("dial", ForwardTarget(req[1].uri))>>
          /\ r.out.err = Some("ConnectionAborted") => r.out.resp = None
          /\ r.out.err = None =>
                /\ r.sent # None
                /\ r.out.resp[1] \in UpstreamResponses
                /\ r.out.resp[1].body = "upstream"
    /\ (req # None /\ phase = "running") =>
          \A env \in Envs :
             LET r == Proxy(config, req[1], env) IN
             (Forwarding(r) /\ env.dial = "ok") =>
                /\ (~env.handshake \/ env.send = None)
                      => r.out = Err("ConnectionAborted")
                /\ (env.handshake /\ env.send # None) => r.out = Ok(env.send[1])

\* GET http://r/a (no port in the URI) was dialed at r:80 and the send failed:
\* ConnectionAborted, no response
C30_Witness ==
    /\ res # None
    /\ Forwarding(res[1])
    /\ UriPort(req[1].uri) = None
    /\ Event("dial", H_r \o <<58, 56, 48>>) \in { res[1].log[i] : i \in 1..Len(res[1].log) }
    /\ res[1].sent # None
    /\ res[1].out = Err("ConnectionAborted")

(* ------------------------------------------------------------------ *)
(* Arrivals on one connection, accepted or rejected, under the timer   *)
(* ------------------------------------------------------------------ *)

\* users a:b, with and without never_ask_for_auth
ArrivalConfigs ==
    { [basic_auth |-> BasicAuthOf(<<U_ab>>), never_ask_for_auth |-> n,
       wrap_plaintexts |-> NoWraps] : n \in BOOLEAN }

\* a CONNECT without authority (400), a forward GET without credentials (407,
\* or permission denied), a GET in origin form (web content, or permission
\* denied), a forward GET with credentials
ArrivalRequests ==
    { MkRequest("CONNECT", "HTTP/1.1", None, <<>>, None, Some(K_ab), None, None),
      MkRequest("GET", "HTTP/1.1", Some(A_o443), S_PathA, Some(H_o), None, None, None),
      MkRequest("GET", "HTTP/1.1", None, S_PathA, Some(H_o), None, None, None),
      MkRequest("GET", "HTTP/1.1", Some(A_o443), S_PathA, Some(H_o), Some(K_ab), None, None) }

NextArrival ==
    \/ \E r \in ArrivalRequests : Arrive(r)
    \/ \E env \in SupEnvs : Handle(env)
    \/ Deliver
    \/ SupRead
    \/ SupConnDone
    \/ SupTimer
    \/ Tick

SpecArrival == InitWith(ArrivalConfigs) /\ [][NextArrival]_vars

\* the handler turned the request away: 400, 407 or permission denied
Rejected(r) ==
    \/ r.out.err = Some("PermissionDenied")
    \/ r.out.err = None /\ r.out.resp[1].status \in {StatusBadRequest, StatusProxyAuthRequired}

\* C29: last_activity is refreshed for every inbound request as it arrives,
\* before classification, authentication or any handler work, whether or not
\* the request is then rejected; so the idle shutdown comes no earlier than
\* IDLE_SECONDS after the latest arrival.
C29_RefreshOnArrival ==
    /\ [][(phase = "idle" /\ phase' = "running") =>
             /\ ctx'.instant = now
             /\ res' = None
             /\ tasks' = tasks]_vars
    /\ [][(phase = "running" /\ phase' = "done") => ctx' = ctx]_vars
    /\ [][(fired' # fired /\ fired' # None /\ fired'[1].did = "graceful_shutdown") =>
             /\ fired'[1].instant = ctx.instant
             /\ now >= ctx.instant + IDLE_SECONDS]_vars

\* a request arrived at time 2 and was rejected; the timer armed at 0 fired
\* at 5, saw the refreshed instant and did not shut the connection down
C29_Witness ==
    /\ res # None
    /\ Rejected(res[1])
    /\ ctx.instant = 2
    /\ fired # None
    /\ fired[1].last = 0
    /\ fired[1].instant = 2
    /\ fired[1].did = "loop"
    /\ conn = "serving"

(* ------------------------------------------------------------------ *)
(* C31 : the CONNECT target cannot be dialed                           *)
(* ------------------------------------------------------------------ *)

\* the [tunnel establish error] lines this step adds to the log
\* the first steps of a tunnel task, with what the task logs
NextEstablish ==
    \/ \E r \in TunnelRequests :
          /\ tasks = <<>>
          /\ Arrive(r)
    \/ \E env \in SupEnvs : Handle(env)
    \/ Deliver
    \/ \E i \in 1..MaxTasks :
          \/ UpgradeOk(i)
          \/ \E ok \in BOOLEAN : TunnelEstablish(i, ok)
          \/ CopyBegin(i)
          \/ TargetEof(i)
          \/ ClientEof(i)
    \/ TunnelTick

SpecEstablish == InitWith(TunnelConfigs) /\ [][NextEstablish]_vars

NewEstablishWarns ==
    {w \in tunnel_warns' \ tunnel_warns : w.line = "tunnel establish error"}

\* a task that held the upgraded stream and had not begun to copy ends
UpgradedTaskEnds ==
    \E i \in 1..Len(tasks) :
        /\ tasks[i].st = "upgraded"
        /\ tasks' = RemoveAt(tasks, i)

\* C31: when the dial of the CONNECT target fails after the 200 was sent, the
\* tunnel task logs the failure and ends without copying any byte; its
\* upgraded client stream goes with it, and nothing else is touched: the other
\* tasks, the connection, its Context, the request in hand and the traffic
\* counters stay as they are.
C31_DialFailure ==
    /\ [][UpgradedTaskEnds =>
             \E i \in 1..Len(tasks) :
                 /\ tasks[i].st = "upgraded"
                 /\ tasks[i].io = None
                 /\ tasks' = RemoveAt(tasks, i)
                 /\ EstablishWarn(i) \in tunnel_warns'
                 /\ tunnel_warns' \ tunnel_warns \subseteq {EstablishWarn(i)}]_vars
    /\ [][NewEstablishWarns # {} =>
             /\ UpgradedTaskEnds
             /\ Len(tasks') = Len(tasks) - 1
             /\ proxy_traffic' = proxy_traffic
             /\ reported' = reported
             /\ UNCHANGED <<conn, ctx, sup_pc, phase, req, res, aborted>>]_vars

\* the dial of o:443 failed: the line is logged, the task is gone and no byte
\* was counted for the tunnel
C31_Witness ==
    /\ \E w \in tunnel_warns :
          /\ w.line = "tunnel establish error"
          /\ w.label.target = <<111, 58, 52, 52, 51>>
    /\ tasks = <<>>
    /\ proxy_traffic = {}
    /\ reported = 0
    /\ conn = "serving"

(* ------------------------------------------------------------------ *)
(* C32 : several TLS ports on one broadcast channel                    *)
(* ------------------------------------------------------------------ *)

\* two TLS listen ports, one serve() each, joined in main()
ListenPorts == {443, 8443}

NextPorts ==
    \/ \E ok \in BOOLEAN : RefreshTick(ok)
    \/ \E q \in ListenPorts : Subscribe(q)
    \/ \E q \in ListenPorts : RecvConfig(q)

\* every serve() task is polled again and again, so a recv that is ready is
\* taken
SpecPorts ==
    /\ InitTlsWith(ListenPorts)
    /\ [][NextPorts]_vars
    /\ \A q \in ListenPorts : WF_vars(RecvConfig(q))

\* the elements of a sequence
Range(seq) == { seq[i] : i \in 1..Len(seq) }

\* the configs published since listener l subscribed
PublishedSince(t, l) == { v \in Range(t.log) : v > l.initial }

\* config v is still to come for the listener: the process is up, the listener
\* is in its loop and the channel still holds v past the listener's cursor
StillToCome(t, l, v) ==
    /\ t.alive
    /\ l.state = "accepting"
    /\ \E k \in l.next..Len(t.log) :
          /\ t.log[k] = v
          /\ Len(t.log) - k + 1 <= CHANNEL_CAPACITY

ShutdownStep ==
    /\ fired' # fired
    /\ fired' # None
    /\ fired'[1].did = "graceful_shutdown"

\* a request arrives while the supervisor sleeps in its select!
ArrivalInSleep ==
    /\ sup_pc = "select"
    /\ phase = "idle"
    /\ phase' = "running"

\* graceful_shutdown is called only when IDLE_SECONDS have passed since the
\* latest arrival, on a timer that was armed IDLE_SECONDS before
ShutdownOnlyWhenIdle ==
    [][ShutdownStep =>
          /\ now >= ctx.instant + IDLE_SECONDS
          /\ now >= last_instant + IDLE_SECONDS
          /\ ~ctx.upgraded
          /\ fired'[1].at = now
          /\ fired'[1].instant = ctx.instant]_vars

\* C33 as stated: graceful_shutdown only when IDLE_SECONDS have passed since
\* the latest arrival, and a request that arrives at any time during the sleep
\* makes the idle test of that firing fail.
C33_Original ==
    /\ ShutdownOnlyWhenIdle
    /\ [][ArrivalInSleep =>
             ~(~ctx'.upgraded /\ ctx'.instant <= last_instant')]_vars

\* C33 amended: an arrival stamped later than the instant the supervisor read
\* before it slept makes the idle test of that firing fail; an arrival stamped
\* with that same instant leaves instant = last_instant and the test true.
C33_ArrivalPreventsShutdown ==
    /\ ShutdownOnlyWhenIdle
    /\ [][(ArrivalInSleep /\ now > last_instant) =>
             ctx'.instant > last_instant']_vars
    /\ [][(ArrivalInSleep /\ now = last_instant /\ ~ctx.upgraded) =>
             ctx'.instant = last_instant']_vars

\* a request arrived at 2 during the sleep armed at 0: the firing at 5 looped,
\* and the second firing, armed at 2, shut the connection down at 7
C33_Witness ==
    /\ fired # None
    /\ fired[1].did = "graceful_shutdown"
    /\ fired[1].n = 2
    /\ fired[1].last = 2
    /\ fired[1].at = 7
    /\ conn = "dropped"

(* ------------------------------------------------------------------ *)
(* C34 : the reverse-proxy path against the credentials                *)
(* ------------------------------------------------------------------ *)

\* every credential table and both modes, with the reverse-proxy entry for "r"
ReverseConfigs ==
    { [basic_auth |-> BasicAuthOf(ul), never_ask_for_auth |-> n,
       wrap_plaintexts |-> WrapR] : ul \in UserLists, n \in BOOLEAN }

\* GETs for the authority "r", by Host header or by HTTP/2 authority, with
\* every combination of Proxy-Authorization and Authorization; and a forward
\* GET for another host
ReverseCredRequests ==
    { MkRequest("GET", "HTTP/1.1", None, S_PathA, Some(H_r), pa, az, None) :
        pa \in Opt({K_ab, K_cd}), az \in Opt({K_ab, K_cd}) }
    \cup
    { MkRequest("GET", "HTTP/2", Some(A_r), S_PathA, None, pa, None, None) :
        pa \in Opt({K_ab}) }
    \cup
    { MkRequest("GET", "HTTP/1.1", Some(A_o443), S_PathA, Some(H_o), pa, None, None) :
        pa \in Opt({K_ab}) }

\* the network as one run sees it: the dial, the handshake and the send fail
\* or succeed
ReverseEnvs ==
    { MkEnv(d, TRUE, None, 1) : d \in {"ConnectionRefused"} }
    \cup { MkEnv("ok", FALSE, None, 1) }
    \cup { MkEnv("ok", TRUE, s, 1) : s \in Opt(UpstreamResponses) }

NextReverse ==
    \/ \E r \in ReverseCredRequests : Arrive(r)
    \/ \E env \in ReverseEnvs : Handle(env)
    \/ Deliver

SpecReverse == InitWith(ReverseConfigs) /\ [][NextReverse]_vars

\* the headers without the two credential headers
StripCreds(headers) ==
    HeaderRemove(HeaderRemove(headers, "proxy-authorization"), "authorization")

\* the two credential headers as the request carries them
CredsOf(headers) ==
    SelectSeq(headers, LAMBDA h : h.name \in {"proxy-authorization", "authorization"})

\* r2 is r1 but for its Proxy-Authorization and Authorization headers
SameButCreds(r1, r2) ==
    /\ [r1 EXCEPT !.headers = <<>>] = [r2 EXCEPT !.headers = <<>>]
    /\ StripCreds(r1.headers) = StripCreds(r2.headers)

\* the request in hand is for an authority of the reverse-proxy table
ReverseInHand ==
    /\ req # None
    /\ req[1].method # "CONNECT"
    /\ RequestAuthority(req[1]) \in DOMAIN config.wrap_plaintexts

\* the runs of the request in hand next to the runs that differ from it in the
\* credential inputs only, on the same network
OtherRuns ==
    { [a |-> Proxy(config, req[1], env), b |-> Proxy(cfg2, r2, env), r2 |-> r2] :
        env \in ReverseEnvs,
        cfg2 \in ReverseConfigs,
        r2 \in {r \in ReverseCredRequests : SameButCreds(req[1], r)} }

\* C34 as stated: the handling of a reverse-proxied request does not depend on
\* the credential table, on never_ask_for_auth or on the request's
\* Proxy-Authorization and Authorization headers: two runs that differ in
\* those only dial the same upstream and send the same outbound request.
C34_Original ==
    ReverseInHand =>
        \A p \in OtherRuns :
            /\ p.a.log = p.b.log
            /\ p.a.sent = p.b.sent

\* C34 amended: two such runs take the reverse-proxy path without any
\* authentication, dial the same upstream, return the same outcome and send
\* outbound requests that are equal but for the Proxy-Authorization and
\* Authorization headers, which each run copies from its own request.
C34_ReverseIgnoresCredentials ==
    ReverseInHand =>
        /\ \A p \in OtherRuns :
              /\ p.a.route = "reverse"
              /\ p.b.route = "reverse"
              /\ p.a.auth = None
              /\ p.b.auth = None
              /\ p.a.log = p.b.log
              /\ \A k \in 1..Len(p.a.log) : p.a.log[k].op # "check_auth"
              /\ p.a.out = p.b.out
              /\ (p.a.sent = None) = (p.b.sent = None)
              /\ p.a.sent # None =>
                    /\ [p.a.sent[1] EXCEPT !.headers = StripCreds(@)]
                          = [p.b.sent[1] EXCEPT !.headers = StripCreds(@)]
                    /\ CredsOf(p.a.sent[1].headers) = CredsOf(req[1].headers)
                    /\ CredsOf(p.b.sent[1].headers) = CredsOf(p.r2.headers)
        /\ res # None => \E p \in OtherRuns : res[1] = p.a

\* a request for "r" without credentials, in silent mode with users
\* configured, was sent to the upstream and answered
C34_Witness ==
    /\ res # None
    /\ ReverseInHand
    /\ DOMAIN config.basic_auth # {}
    /\ config.never_ask_for_auth
    /\ CredsOf(req[1].headers) = <<>>
    /\ res[1].route = "reverse"
    /\ res[1].out.err = None
    /\ res[1].sent # None

(* ------------------------------------------------------------------ *)
(* C35 : CONNECT, authentication before the target                     *)
(* ------------------------------------------------------------------ *)

\* the outcome is the 400 of a CONNECT whose target is no socket address
BadTarget(r) ==
    /\ r.out.err = None
    /\ r.out.resp[1].status = StatusBadRequest

\* C35: for CONNECT the credentials are checked before the target is looked
\* at: an unauthenticated CONNECT gets the authentication outcome (407, or an
\* error that closes the connection in silent mode) whatever its request-URI,
\* never the 400 and never a tunnel; the 400 goes to authenticated clients only.
C35_AuthBeforeTarget ==
    (res # None /\ req[1].method = "CONNECT") =>
        LET r == res[1] IN
        /\ r.auth # None
        /\ r.log # <<>>
        /\ r.log[1].op = "check_auth"
        /\ ~r.auth[1].authed =>
              /\ r.out = IF config.never_ask_for_auth
                         THEN Err("PermissionDenied")
                         ELSE Ok(BuildAuthenticateResp(TRUE))
              /\ r.spawned = None
              /\ Len(r.log) = 1
        /\ BadTarget(r) =>
              /\ r.auth[1].authed
              /\ authority(req[1].uri) = None
        /\ (r.auth[1].authed /\ authority(req[1].uri) = None) => BadTarget(r)

\* a CONNECT without a target and without credentials, users configured: 407
C35_Witness ==
    /\ res # None
    /\ req[1].method = "CONNECT"
    /\ authority(req[1].uri) = None
    /\ HeaderGet(req[1].headers, "proxy-authorization") = None
    /\ DOMAIN config.basic_auth # {}
    /\ ~config.never_ask_for_auth
    /\ res[1].out.err = None
    /\ res[1].out.resp[1].status = StatusProxyAuthRequired

(* ------------------------------------------------------------------ *)
(* C38 : a config update while an accept is pending                    *)
(* ------------------------------------------------------------------ *)

\* the handshake pending on port q, as the connection it would become
PendingConn(t, q) ==
    [port |-> q, config |-> t.listeners[q].pending[1].config,
     seen |-> t.listeners[q].pending[1].seen]

ConnIds == {1, 2}

\* bound on the clock of the accept loop's run
MaxClock == 5

\* what an accept can return: a connection, an error of the TCP accept, an
\* error of the TLS handshake (TLS branch only)
AcceptOutcomes == {"ok", "accept failed", "handshake failed"}

\* tokio::spawn of the connection task: its own Context::default(), and the
\* supervisor in its first select! with the last_instant it read from it
NewConn(t) ==
    [ctx |-> DefaultContext(t), sup_pc |-> "select", last |-> t,
     engine |-> "serving", ended |-> "no"]

\* the ids not yet given to a connection
Free(s) == { c \in ConnIds : s.conns[c] = None }

Lowest(S) == CHOOSE c \in S : \A d \in S : c <= d

\* an accept loop that returns at the first accept that fails
Mut_AfterAcceptEndsOnError(s, outcome) ==
    IF outcome = "ok"
    THEN [s EXCEPT !.conns[Lowest(Free(s))] = Some(NewConn(s.clock)),
                   !.last_accept = outcome]
    ELSE [s EXCEPT !.last_accept = outcome, !.failed = TRUE, !.listener = "ended"]

\* one round of the accept loop: Ok spawns the connection task; Err is logged
\* (TLS branch) or skipped (plaintext branch); the loop goes round again
AfterAccept(s, outcome) ==
    IF outcome = "ok"
    THEN [s EXCEPT !.conns[Lowest(Free(s))] = Some(NewConn(s.clock)),
                   !.last_accept = outcome]
    ELSE [s EXCEPT !.last_accept = outcome, !.failed = TRUE]

\* a service function that writes one Context shared by all connections
Mut_ProxyRequestSharedContext(s, c) ==
    [s EXCEPT !.conns = [d \in ConnIds |->
        IF s.conns[d] = None THEN None
        ELSE Some([s.conns[d][1] EXCEPT !.ctx = Refresh(@, s.clock)])]]

\* proxy() on connection c: context.refresh() on the Context the task of c
\* created and moved into its service_fn
ProxyRequest(s, c) ==
    [s EXCEPT !.conns[c] = Some([@[1] EXCEPT !.ctx = Refresh(@, s.clock)])]

\* the timer branch of c's supervisor: graceful_shutdown and break on the idle
\* test; otherwise the refresh of an upgraded connection, and the loop reads
\* last_instant again before its next select!
TimerBranch(k, t) ==
    IF IdleTest(k.ctx.upgraded, k.ctx.instant, k.last)
    THEN [k EXCEPT !.sup_pc = "done", !.engine = "dropped", !.ended = "idle shutdown"]
    ELSE LET c2 == IF k.ctx.upgraded THEN Refresh(k.ctx, t) ELSE k.ctx
         IN [k EXCEPT !.ctx = c2, !.last = c2.instant]

InitListener ==
    /\ InitConn({[basic_auth |-> EmptyTable, never_ask_for_auth |-> FALSE,
                  wrap_plaintexts |-> NoWraps]})
    /\ boot = None
    /\ tls = None
    /\ srv \in { Some([over_tls |-> b, listener |-> "accepting", clock |-> 0,
                       last_accept |-> "none", failed |-> FALSE,
                       conns |-> [c \in ConnIds |-> None]]) : b \in BOOLEAN }

\* connection c is served by its task
Served(c) ==
    /\ srv # None
    /\ srv[1].conns[c] # None
    /\ srv[1].conns[c][1].sup_pc # "done"

Conn(c) == srv[1].conns[c][1]

\* acceptor.accept() / tcp_listener.accept() returns
ListenerAccept(outcome) ==
    /\ srv # None
    /\ srv[1].listener = "accepting"
    /\ outcome = "ok" => Free(srv[1]) # {}
    /\ outcome = "handshake failed" => srv[1].over_tls
    /\ srv' = Some(AfterAccept(srv[1], outcome))
    /\ UNCHANGED <<cvars, boot, tls>>

\* a request arrives on connection c
ConnRequest(c) ==
    /\ Served(c)
    /\ Conn(c).engine = "serving"
    /\ srv' = Some(ProxyRequest(srv[1], c))
    /\ UNCHANGED <<cvars, boot, tls>>

\* the upgrade of a CONNECT on connection c completes
ConnUpgrade(c) ==
    /\ Served(c)
    /\ Conn(c).engine = "serving"
    /\ ~Conn(c).ctx.upgraded
    /\ srv' = Some([srv[1] EXCEPT !.conns[c] =
                       Some([@[1] EXCEPT !.ctx = MarkUpgraded(@)])])
    /\ UNCHANGED <<cvars, boot, tls>>

\* c's sleep_until(last_instant + IDLE_SECONDS) fires
ConnTimer(c) ==
    /\ Served(c)
    /\ Conn(c).sup_pc = "select"
    /\ srv[1].clock >= Conn(c).last + IDLE_SECONDS
    /\ srv' = Some([srv[1] EXCEPT !.conns[c] = Some(TimerBranch(@[1], srv[1].clock))])
    /\ UNCHANGED <<cvars, boot, tls>>

\* c's connection future completes, with or without an error: the task logs
\* the error and ends
ConnEngineDone(c, err) ==
    /\ Served(c)
    /\ Conn(c).sup_pc = "select"
    /\ Conn(c).engine = "serving"
    /\ srv' = Some([srv[1] EXCEPT !.conns[c] =
                       Some([@[1] EXCEPT !.sup_pc = "done", !.engine = "finished",
                                         !.ended = IF err THEN "error" ELSE "closed"])])
    /\ UNCHANGED <<cvars, boot, tls>>

\* time passes
ListenerTick ==
    /\ srv # None
    /\ srv[1].clock < MaxClock
    /\ srv' = Some([srv[1] EXCEPT !.clock = @ + 1])
    /\ UNCHANGED <<cvars, boot, tls>>

NextListener ==
    \/ \E outcome \in AcceptOutcomes : ListenerAccept(outcome)
    \/ \E c \in ConnIds : ConnRequest(c)
    \/ \E c \in ConnIds : ConnUpgrade(c)
    \/ \E c \in ConnIds : ConnTimer(c)
    \/ \E c \in ConnIds : \E err \in BOOLEAN : ConnEngineDone(c, err)
    \/ ListenerTick

SpecListener == InitListener /\ [][NextListener]_vars

(* ------------------------------------------------------------------ *)
(* C36, C37 : connections side by side, and the loop that accepts them  *)
(* ------------------------------------------------------------------ *)

\* connection c takes its idle shutdown on this step
IdleShutdownOf(c) ==
    /\ srv[1].conns[c] # None
    /\ Conn(c).ended = "no"
    /\ srv'[1].conns[c][1].ended = "idle shutdown"

\* C36: each accepted connection owns its Context: it starts from
\* Context::default() of its own accept, a step of one connection (request,
\* upgrade, timer, end) leaves every other connection as it was, and whether
\* and when a connection is shut down as idle is decided by its own
\* last_activity and upgraded alone.
C36_OwnContext ==
    /\ [][srv # None =>
            /\ \A c, d \in ConnIds :
                  (c # d /\ srv'[1].conns[c] # srv[1].conns[c])
                      => srv'[1].conns[d] = srv[1].conns[d]
            /\ \A c \in ConnIds :
                  (srv[1].conns[c] = None /\ srv'[1].conns[c] # None)
                      => srv'[1].conns[c][1].ctx = DefaultContext(srv[1].clock)
            /\ \A c \in ConnIds :
                  IdleShutdownOf(c) =>
                      /\ ~Conn(c).ctx.upgraded
                      /\ srv[1].clock >= Conn(c).ctx.instant + IDLE_SECONDS]_vars
    /\ [](srv # None =>
            \A c \in ConnIds :
                (/\ Served(c)
                 /\ ~Conn(c).ctx.upgraded
                 /\ Conn(c).ctx.instant = Conn(c).last
                 /\ srv[1].clock >= Conn(c).last + IDLE_SECONDS)
                    => ENABLED (ConnTimer(c) /\ IdleShutdownOf(c)))

\* connection 1 was shut down as idle while connection 2, accepted with it,
\* had a request later on and is still served
C36_Witness ==
    /\ srv # None
    /\ srv[1].conns[1] # None
    /\ srv[1].conns[2] # None
    /\ Conn(1).ended = "idle shutdown"
    /\ Conn(1).ctx.instant = 0
    /\ Conn(2).ended = "no"
    /\ Conn(2).ctx.instant >= 3
    /\ Conn(2).last = 0

\* C37: the accept loop never ends because an accept or a TLS handshake
\* failed or because a served connection failed or was shut down as idle:
\* after each of them the loop is accepting, and it can take the next
\* connection whatever the connections already spawned are doing.
C37_AcceptLoopGoesOn ==
    /\ [](srv # None =>
            /\ srv[1].listener = "accepting"
            /\ Free(srv[1]) # {} => ENABLED ListenerAccept("ok"))
    /\ [][srv # None =>
            /\ srv'[1].listener = srv[1].listener
            /\ (srv'[1].last_accept # srv[1].last_accept
                    /\ srv'[1].last_accept # "ok")
                  => srv'[1].conns = srv[1].conns
            /\ (\E c \in ConnIds : /\ srv[1].conns[c] # None
                                   /\ srv'[1].conns[c] # srv[1].conns[c])
                  => srv'[1].last_accept = srv[1].last_accept]_vars

\* an accept of a TLS listener had failed and connection 1 had ended with an
\* error, and the latest round of the loop accepted connection 2
C37_Witness ==
    /\ srv # None
    /\ srv[1].over_tls
    /\ srv[1].listener = "accepting"
    /\ srv[1].failed
    /\ srv[1].last_accept = "ok"
    /\ srv[1].conns[1] # None
    /\ srv[1].conns[2] # None
    /\ Conn(1).ended = "error"
    /\ Conn(1).ctx.instant < Conn(2).ctx.instant
    /\ Conn(2).ended = "no"


====
